---- MODULE Spec2Model ----
(***************************************************************************)
(* GradCafe analytics (jhu_software_concepts): the Flask dashboard's       *)
(* single-flight "pull" flag with its background workers, and the loader   *)
(* that inserts applicant records into the PostgreSQL applicants table.    *)
(*                                                                         *)
(* The threads of the web application are modelled one step per statement  *)
(* group that other threads can observe: taking _LOCK, the body of a       *)
(* `with _LOCK:` block (which ends by releasing the lock), starting a      *)
(* thread, one pipeline stage of a worker.  A database transaction is one  *)
(* step: it is committed once, at its end.                                 *)
(***************************************************************************)
EXTENDS Naturals, Integers, Sequences, FiniteSets, TLC

VARIABLES
    module,          \* which generation of the code runs: "m3" or "m5"
    SCRAPER_FN,      \* app.config["SCRAPER_FN"] is set (module_5 only)
    _PULL_RUNNING,   \* app.py global
    _PULL_MESSAGE,   \* app.py global
    _LAST_ANALYSIS,  \* app.py global
    _LOCK,           \* holder of threading.Lock(): a thread id, or Free
    req,             \* request thread of each HTTP request
    wrk,             \* background thread started by each request
    tableExists,     \* the applicants table has been created
    indexKind,       \* applicants_sig_unique: "none", "plain" or "coalesce"
    applicants,      \* rows of the table, in p_id order
    nextId,          \* next value of the SERIAL sequence of p_id
    hist,            \* observation log of completed loads (not program state)
    probe            \* the last call of a function made on its own, with its result

vars == <<module, SCRAPER_FN, _PULL_RUNNING, _PULL_MESSAGE, _LAST_ANALYSIS,
          _LOCK, req, wrk, tableExists, indexKind, applicants, nextId, hist, probe>>

appVars == <<_PULL_RUNNING, _PULL_MESSAGE, _LAST_ANALYSIS, _LOCK, req, wrk>>
dbVars  == <<tableExists, indexKind, applicants, nextId>>

(***************************************************************************)
(* Bounds of the model.                                                    *)
(***************************************************************************)
MaxRequests == 3
MaxLoads == 1
MaxPages == 1
\* The longest text, in words, a function called on its own is given.
MaxWords == 3
\* The longest file, in lines, main and load_jsonl are called on by themselves.
MaxLines == 3
\* The longest text, in characters, a text normalizer is given.
MaxChars == 3


(***************************************************************************)
(* Optional values.  Python's None / SQL NULL is None; a present value v   *)
(* is Some(v).  A text is a sequence of one-character strings, so that     *)
(* the empty string Some(<<>>) differs from None.                          *)
(***************************************************************************)
None == <<>>
Some(v) == <<v>>
Val(x) == x[1]
IsNone(x) == x = None

\* A local variable: F applied to the value v.
Let(v, F(_)) == F(v)

Free == 0
Reqs == 1..MaxRequests

\* The three values _PULL_MESSAGE takes (app.py:11, 176, 178, 225).
MSG_INITIAL  == "No load has been run yet."
MSG_STARTED  == "Pull Data started..."
MSG_COMPLETE == "Pull Data complete."
MSG_FAILED   == "Pull Data failed: ..."

NoReq == [kind |-> "none", pc |-> "new", outcome |-> "none", code |-> 0, seen |-> <<>>]
NoWrk == [kind |-> "none", pc |-> "idle", stage |-> 0, rows |-> 0, msg |-> "unset",
          result |-> None]
NoProbe == [fn |-> "none"]
NoHist == [op |-> "none", input |-> 0, ok |-> FALSE, repeat |-> FALSE, before |-> 0,
           cli |-> 0]

(***************************************************************************)
(* The applicants table (load_data.py ensure_table; app.py _load_rows).    *)
(* A row is a record of the 14 inserted columns plus p_id.                 *)
(***************************************************************************)
Columns == {"program", "comments", "date_added", "url", "status", "term",
            "us_or_international", "gpa", "gre", "gre_v", "gre_aw", "degree",
            "llm_generated_program", "llm_generated_university"}

\* COALESCE(x, '') of the unique index and of ensure_index's PARTITION BY.
Coalesce(x) == IF x = None THEN <<>> ELSE Val(x)

\* The (url, program, comments) signature with NULL read as ''.
Sig(row) == <<Coalesce(row.url), Coalesce(row.program), Coalesce(row.comments)>>

\* Whether the unique index applicants_sig_unique, of the given kind, treats
\* rows a and b as duplicates.  A plain index on (url, program, comments)
\* never equates two NULLs (PostgreSQL's default NULLS DISTINCT); the index on
\* the COALESCE expressions does.
IndexConflict(kind, a, b) ==
    CASE kind = "coalesce" -> Sig(a) = Sig(b)
      [] kind = "plain" -> /\ a.url # None /\ a.program # None /\ a.comments # None
                           /\ a.url = b.url /\ a.program = b.program
                           /\ a.comments = b.comments
      [] OTHER -> FALSE

\* The conflict clause of the INSERT of each module: module_3 names the
\* columns, which PostgreSQL must match to a unique index on exactly these
\* columns; module_5 names none, and any unique index arbitrates.
ConflictTarget(m) == IF m = "m3" THEN "columns" ELSE "any"

\* Truthiness of an optional str: neither None nor "".
Truthy(x) == x # None /\ Val(x) # <<>>

\* The row an INSERT stores: the values and the next p_id.
Stored(db, vals) ==
    [c \in Columns \cup {"p_id"} |-> IF c = "p_id" THEN db.nextId ELSE vals[c]]

\* The rows after ON CONFLICT ... DO UPDATE, where set(old, new) is the row
\* that replaces a conflicting row.
Upsert(kind, db, vals, set(_, _)) ==
    IF \E i \in 1..Len(db.rows) : IndexConflict(kind, vals, db.rows[i])
    THEN [db EXCEPT !.nextId = @ + 1,
                    !.rows = [i \in 1..Len(db.rows) |->
                                IF IndexConflict(kind, vals, db.rows[i])
                                THEN set(db.rows[i], vals) ELSE db.rows[i]]]
    ELSE [db EXCEPT !.nextId = @ + 1, !.rows = Append(@, Stored(db, vals))]

\* A plain INSERT: a duplicate key raises and aborts the load.
InsertDoNothing_raising(m, kind, db, vals) ==
    IF ~db.ok THEN db
    ELSE IF \E i \in 1..Len(db.rows) : IndexConflict(kind, vals, db.rows[i])
    THEN [db EXCEPT !.ok = FALSE]
    ELSE [db EXCEPT !.nextId = @ + 1, !.rows = Append(@, Stored(db, vals))]

\* An upsert that fills the LLM columns from the incoming row where that row
\* has a value: COALESCE(NULLIF(EXCLUDED.x, ''), applicants.x).
InsertDoNothing_coalescing(m, kind, db, vals) ==
    IF ~db.ok THEN db
    ELSE Upsert(kind, db, vals,
                LAMBDA old, new :
                   [old EXCEPT !.llm_generated_program =
                                   IF Truthy(new.llm_generated_program)
                                   THEN new.llm_generated_program ELSE @,
                               !.llm_generated_university =
                                   IF Truthy(new.llm_generated_university)
                                   THEN new.llm_generated_university ELSE @])

\* An upsert that overwrites the LLM columns with the incoming values.
InsertDoNothing_overwriting(m, kind, db, vals) ==
    IF ~db.ok THEN db
    ELSE Upsert(kind, db, vals,
                LAMBDA old, new :
                   [old EXCEPT !.llm_generated_program = new.llm_generated_program,
                               !.llm_generated_university = new.llm_generated_university])

\* An upsert that replaces every column but p_id and the LLM columns.
InsertDoNothing_replacing(m, kind, db, vals) ==
    IF ~db.ok THEN db
    ELSE Upsert(kind, db, vals,
                LAMBDA old, new :
                   [c \in DOMAIN old |->
                      IF c \in {"p_id", "llm_generated_program", "llm_generated_university"}
                      THEN old[c] ELSE new[c]])

\* INSERT ... ON CONFLICT ... DO NOTHING of one row into db = [rows, nextId,
\* ok].  nextval('p_id') is taken before the conflict check, so a skipped row
\* consumes an id too.  A statement that raises leaves the transaction failed.
InsertDoNothing(m, kind, db, vals) ==
    IF ~db.ok THEN db
    ELSE IF \/ Columns \ DOMAIN vals # {}
            \/ (ConflictTarget(m) = "columns" /\ kind # "plain")
    THEN [db EXCEPT !.ok = FALSE]
    ELSE IF \E i \in 1..Len(db.rows) : IndexConflict(kind, vals, db.rows[i])
    THEN [db EXCEPT !.nextId = @ + 1]
    ELSE [db EXCEPT !.nextId = @ + 1,
                    !.rows = Append(@, Stored(db, vals))]

\* The `for row in rows: cur.execute(INSERT ...)` loop of one transaction.
RECURSIVE InsertAll(_, _, _, _)
InsertAll(m, kind, db, rowsIn) ==
    IF rowsIn = <<>> THEN db
    ELSE InsertAll(m, kind, InsertDoNothing(m, kind, db, Head(rowsIn)), Tail(rowsIn))

\* A _load_rows that commits after every INSERT: the rows stored before the
\* statement that raises stay.
_load_rows_committing_each(m, exists, kind, rowsNow, idNow, rowsIn, dbUp) ==
    IF rowsIn = <<>> THEN [ok |-> TRUE, rows |-> rowsNow, nextId |-> idNow]
    ELSE IF ~dbUp \/ ~exists THEN [ok |-> FALSE, rows |-> rowsNow, nextId |-> idNow]
    ELSE InsertAll(m, kind, [ok |-> TRUE, rows |-> rowsNow, nextId |-> idNow], rowsIn)

\* app.py _load_rows: nothing for an empty list; else one connection, one
\* INSERT per row, one commit.  The result is [ok, rows, nextId]: when the
\* connection cannot be opened, the table is missing or a statement raises,
\* nothing is committed (the sequence is not transactional and keeps its
\* advance).
_load_rows(m, exists, kind, rowsNow, idNow, rowsIn, dbUp) ==
    IF rowsIn = <<>> THEN [ok |-> TRUE, rows |-> rowsNow, nextId |-> idNow]
    ELSE IF ~dbUp \/ ~exists THEN [ok |-> FALSE, rows |-> rowsNow, nextId |-> idNow]
    ELSE LET r == InsertAll(m, kind, [ok |-> TRUE, rows |-> rowsNow, nextId |-> idNow], rowsIn)
         IN  IF r.ok THEN r ELSE [ok |-> FALSE, rows |-> rowsNow, nextId |-> r.nextId]

(***************************************************************************)
(* Text.  A str is a sequence of one-character strings.                    *)
(***************************************************************************)
UpperChars == <<"A","B","C","D","E","F","G","H","I","J","K","L","M",
                "N","O","P","Q","R","S","T","U","V","W","X","Y","Z">>
LowerChars == <<"a","b","c","d","e","f","g","h","i","j","k","l","m",
                "n","o","p","q","r","s","t","u","v","w","x","y","z">>
Digits == {"0","1","2","3","4","5","6","7","8","9"}
Space == {" ", "\t", "\n"}
Range(f) == {f[i] : i \in DOMAIN f}
\* The dotless i: a letter that str.upper maps to I, that str.lower leaves
\* alone, and that a pattern's i matches under re.IGNORECASE.
DOTLESS_I == "\\u0131"
Letters == Range(UpperChars) \cup Range(LowerChars) \cup {DOTLESS_I}
WordChars == Letters \cup Digits \cup {"_"}

IndexIn(seq, c) == CHOOSE i \in DOMAIN seq : seq[i] = c
LowerChar(c) == IF c \in Range(UpperChars) THEN LowerChars[IndexIn(UpperChars, c)] ELSE c
UpperChar(c) ==
    IF c = DOTLESS_I THEN "I"
    ELSE IF c \in Range(LowerChars) THEN UpperChars[IndexIn(LowerChars, c)] ELSE c
Lower(t) == [i \in DOMAIN t |-> LowerChar(t[i])]
\* The text a pattern compiled with re.IGNORECASE, written in lower case, is
\* matched against.
IgnoreCase(t) == [i \in DOMAIN t |-> IF t[i] = DOTLESS_I THEN "i" ELSE LowerChar(t[i])]
Upper(t) == [i \in DOMAIN t |-> UpperChar(t[i])]

\* str.title(): a letter is upper-cased after a non-letter, lower-cased after
\* a letter.
Title(t) == [i \in DOMAIN t |->
               IF i > 1 /\ t[i - 1] \in Letters THEN LowerChar(t[i]) ELSE UpperChar(t[i])]

\* str.strip(): without leading and trailing whitespace.
RECURSIVE LStrip(_)
LStrip(t) == IF t # <<>> /\ Head(t) \in Space THEN LStrip(Tail(t)) ELSE t
RECURSIVE RStrip(_)
RStrip(t) == IF t # <<>> /\ t[Len(t)] \in Space THEN RStrip(SubSeq(t, 1, Len(t) - 1)) ELSE t
Strip(t) == RStrip(LStrip(t))

\* str.replace(c, ""): without every occurrence of the character c.
Remove(t, c) == SelectSeq(t, LAMBDA x : x # c)

NUL == "\\x00"

\* load_data.py clean_text, of an optional str.
clean_text(x) ==
    IF x = None THEN None
    ELSE LET s == Strip(Remove(Val(x), NUL))
         IN  IF s # <<>> THEN Some(s) ELSE None

(***************************************************************************)
(* Regular expressions (Python's re): a backtracking matcher that yields   *)
(* the matches at a position in Python's order of preference, so that      *)
(* search returns the match, and the groups, that re.search returns.       *)
(* A pattern compiled with re.IGNORECASE is written in lower case and      *)
(* matched against IgnoreCase of the text.                                 *)
(***************************************************************************)
ReSet(cs) == [k |-> "set", s |-> cs]
ReSeq(a, b) == [k |-> "seq", a |-> a, b |-> b]
ReAlt(a, b) == [k |-> "alt", a |-> a, b |-> b]
ReOpt(a) == [k |-> "opt", a |-> a]
ReStar(a) == [k |-> "star", a |-> a]
ReGroup(n, a) == [k |-> "grp", n |-> n, a |-> a]
ReB == [k |-> "wb"]
ReEps == [k |-> "eps"]

RECURSIVE ReCat(_)
ReCat(rs) == IF rs = <<>> THEN ReEps
             ELSE IF Len(rs) = 1 THEN rs[1] ELSE ReSeq(rs[1], ReCat(Tail(rs)))
RECURSIVE ReAny(_)
ReAny(rs) == IF Len(rs) = 1 THEN rs[1] ELSE ReAlt(rs[1], ReAny(Tail(rs)))
\* A literal string.
ReLit(t) == ReCat([i \in DOMAIN t |-> ReSet({t[i]})])
ReDigit == ReSet(Digits)
ReSpaces == ReStar(ReSet(Space))

NoGroups == <<None, None, None>>

IsWordAt(t, i) == i >= 1 /\ i <= Len(t) /\ t[i] \in WordChars

\* The matches of re in t starting at position i, best first: each is
\* [pos |-> the position after the match, g |-> the groups].
RECURSIVE ReMatch(_, _, _, _)
RECURSIVE ReThen(_, _, _)
RECURSIVE ReStarFrom(_, _, _)
\* For each match in ms, in order, the matches of re that continue it.
ReThen(ms, re, t) ==
    IF ms = <<>> THEN <<>>
    ELSE ReMatch(re, t, Head(ms).pos, Head(ms).g) \o ReThen(Tail(ms), re, t)
\* Greedy star: for each match of one more repetition, in order, its
\* continuations, and last the match that stops here.
ReStarFrom(ms, re, t) ==
    IF ms = <<>> THEN <<>>
    ELSE ReMatch(ReStar(re), t, Head(ms).pos, Head(ms).g) \o ReStarFrom(Tail(ms), re, t)
ReMatch(re, t, i, g) ==
    CASE re.k = "eps" -> <<[pos |-> i, g |-> g]>>
      [] re.k = "set" -> IF i <= Len(t) /\ t[i] \in re.s
                         THEN <<[pos |-> i + 1, g |-> g]>> ELSE <<>>
      [] re.k = "wb"  -> IF IsWordAt(t, i - 1) # IsWordAt(t, i)
                         THEN <<[pos |-> i, g |-> g]>> ELSE <<>>
      [] re.k = "seq" -> ReThen(ReMatch(re.a, t, i, g), re.b, t)
      [] re.k = "alt" -> ReMatch(re.a, t, i, g) \o ReMatch(re.b, t, i, g)
      [] re.k = "opt" -> ReMatch(re.a, t, i, g) \o <<[pos |-> i, g |-> g]>>
      [] re.k = "star" ->
            ReStarFrom(SelectSeq(ReMatch(re.a, t, i, g), LAMBDA m : m.pos > i), re.a, t)
               \o <<[pos |-> i, g |-> g]>>
      [] re.k = "grp" ->
            LET ms == ReMatch(re.a, t, i, g)
            IN  [j \in DOMAIN ms |->
                   [pos |-> ms[j].pos,
                    g |-> [ms[j].g EXCEPT ![re.n] = Some(<<i, ms[j].pos - 1>>)]]]

\* re.match(t): the preferred match at the start of t, or None.
ReMatchAt(re, t, i) ==
    LET ms == ReMatch(re, t, i, NoGroups)
    IN  IF ms = <<>> THEN None ELSE Some(ms[1])

\* re.search(t): the preferred match at the leftmost position that has one.
RECURSIVE ReSearchFrom(_, _, _)
ReSearchFrom(re, t, i) ==
    IF i > Len(t) + 1 THEN None
    ELSE LET m == ReMatchAt(re, t, i)
         IN  IF m # None THEN Some([start |-> i, pos |-> Val(m).pos, g |-> Val(m).g])
             ELSE ReSearchFrom(re, t, i + 1)
ReSearch(re, t) == ReSearchFrom(re, t, 1)

\* m.group(n) as a slice of the original text orig (the match was made on
\* its lower-cased copy, which has the same positions).
Group(orig, m, n) ==
    IF m.g[n] = None THEN None ELSE Some(SubSeq(orig, Val(m.g[n])[1], Val(m.g[n])[2]))

\* x or "" of an optional str.
OrEmpty(x) == IF x = None THEN <<>> ELSE Val(x)
\* Python's `a or b`.
PyOr(a, b) == IF Truthy(a) THEN a ELSE b

\* sub in t
Contains(t, sub) ==
    \E i \in 1..(Len(t) - Len(sub) + 1) : SubSeq(t, i, i + Len(sub) - 1) = sub

(***************************************************************************)
(* load_data.py: the field extractors.                                     *)
(***************************************************************************)
\* The apostrophes the term patterns accept: module_2 (m2, clean.py) and
\* module_3 read ['\u2019], module_5 reads [''].
Apostrophes(m) == IF m \in {"m2", "m3"} THEN {"'", "\\u2019"} ELSE {"'"}

TERM_FULL_RE(m) ==
    ReCat(<<ReB,
            ReGroup(1, ReAny(<<ReLit(<<"f","a","l","l">>), ReLit(<<"s","p","r","i","n","g">>), ReLit(<<"s","u","m","m","e","r">>), ReLit(<<"w","i","n","t","e","r">>), ReLit(<<"a","u","t","u","m","n">>)>>)),
            ReSpaces, ReOpt(ReSet(Apostrophes(m))), ReSpaces,
            ReGroup(2, ReAlt(ReCat(<<ReLit(<<"2","0">>), ReDigit, ReDigit>>), ReSeq(ReDigit, ReDigit))),
            ReB>>)

TERM_SHORT_RE(m) ==
    ReCat(<<ReB,
            ReGroup(1, ReAny(<<ReLit(<<"f">>), ReLit(<<"s">>), ReLit(<<"s","u">>), ReLit(<<"w">>)>>)),
            ReSpaces, ReOpt(ReSet(Apostrophes(m))), ReSpaces,
            ReGroup(2, ReSeq(ReDigit, ReDigit)),
            ReB>>)

\* TERM_MAP.get(code)
TERM_MAP(code) ==
    CASE code = <<"F">> -> Some(<<"F","a","l","l">>)
      [] code = <<"S">> -> Some(<<"S","p","r","i","n","g">>)
      [] code = <<"S","U">> -> Some(<<"S","u","m","m","e","r">>)
      [] code = <<"W">> -> Some(<<"W","i","n","t","e","r">>)
      [] OTHER -> None

\* "{season} {year}" of a full-form match: Autumn reads Fall, YY reads 20YY.
TermOfFull(season, year) ==
    (IF season = <<"A","u","t","u","m","n">> THEN <<"F","a","l","l">> ELSE season)
       \o <<" ">> \o (IF Len(year) = 2 THEN <<"2","0">> \o year ELSE year)

\* "{season} 20{yy}" of a shorthand match whose code TERM_MAP knows.
TermOfShort(season, yy) ==
    IF season # None THEN Some(Val(season) \o <<" ","2","0">> \o yy) ELSE None

extract_term(m, text) ==
    Let(ReSearch(TERM_FULL_RE(m), IgnoreCase(text)), LAMBDA full :
        IF full # None
        THEN Some(TermOfFull(Title(Val(Group(text, Val(full), 1))),
                             Val(Group(text, Val(full), 2))))
        ELSE Let(ReSearch(TERM_SHORT_RE(m), IgnoreCase(text)), LAMBDA short :
                 IF short # None
                 THEN TermOfShort(TERM_MAP(Upper(Val(Group(text, Val(short), 1)))),
                                  Val(Group(text, Val(short), 2)))
                 ELSE None))

DECISION_RE ==
    ReCat(<<ReB,
            ReGroup(1, ReAny(<<ReLit(<<"a","c","c","e","p","t","e","d">>), ReLit(<<"r","e","j","e","c","t","e","d">>), ReLit(<<"w","a","i","t","l","i","s","t","e","d">>), ReLit(<<"w","a","i","t"," ","l","i","s","t","e","d">>),
                               ReLit(<<"i","n","t","e","r","v","i","e","w">>)>>)),
            ReB>>)
AMERICAN_RE == ReCat(<<ReB, ReLit(<<"a","m","e","r","i","c","a","n">>), ReB>>)
INTL_RE == ReCat(<<ReB, ReLit(<<"i","n","t","e","r","n","a","t","i","o","n","a","l">>), ReB>>)

extract_status(text) ==
    Let(ReSearch(DECISION_RE, IgnoreCase(text)), LAMBDA m :
        IF m = None THEN None
        ELSE Let(Val(Group(text, Val(m), 1)), LAMBDA g1 :
                 IF Remove(Lower(g1), " ") = <<"w","a","i","t","l","i","s","t","e","d">>
                 THEN Some(<<"W","a","i","t","l","i","s","t","e","d">>)
                 ELSE Some(Title(g1))))

extract_us_intl(text) ==
    IF ReSearch(INTL_RE, IgnoreCase(text)) # None THEN Some(<<"I","n","t","e","r","n","a","t","i","o","n","a","l">>)
    ELSE IF ReSearch(AMERICAN_RE, IgnoreCase(text)) # None THEN Some(<<"A","m","e","r","i","c","a","n">>)
    ELSE None

\* normalize_degree after clean_text: s is the cleaned text, lo its lower case.
DegreeOf(s, lo) ==
    IF Contains(lo, <<"p","h","d">>) \/ Contains(lo, <<"p","h",".","d">>) \/ Contains(lo, <<"d","o","c","t","o","r">>)
    THEN Some(<<"P","h","D">>)
    ELSE IF Contains(lo, <<"m","a","s","t","e","r">>) \/ lo \in {<<"m","s">>, <<"m",".","s",".">>, <<"m","s","c">>, <<"m","c","s">>, <<"m","e","n","g">>}
    THEN Some(<<"M","a","s","t","e","r","s">>)
    ELSE IF Contains(lo, <<"b","a","c","h","e","l","o","r">>) \/ lo \in {<<"b","s">>, <<"b",".","s",".">>}
    THEN Some(<<"B","a","c","h","e","l","o","r","s">>)
    ELSE s

normalize_degree(x) ==
    Let(clean_text(x), LAMBDA s :
        IF s = None THEN None ELSE DegreeOf(s, Lower(Val(s))))

(***************************************************************************)
(* Numbers and dates.  A float is <<mantissa, scale>>, the decimal number  *)
(* mantissa / 10^scale with no trailing zero in its fraction, so that      *)
(* 3.80 and 3.8 are the same value.  A date is <<year, month, day>>.       *)
(***************************************************************************)
DigitSeq == <<"0","1","2","3","4","5","6","7","8","9">>
DigitVal(c) == IndexIn(DigitSeq, c) - 1
RECURSIVE NatOf(_)
NatOf(ds) == IF ds = <<>> THEN 0 ELSE 10 * NatOf(SubSeq(ds, 1, Len(ds) - 1)) + DigitVal(ds[Len(ds)])
RECURSIVE Normalize(_)
Normalize(f) == IF f[2] > 0 /\ f[1] % 10 = 0 THEN Normalize(<<f[1] \div 10, f[2] - 1>>) ELSE f

\* float(s) of a plain decimal literal: digits, at most one point, at least
\* one digit.  Any other text raises ValueError (None here); exponents, signs
\* and the words inf and nan are outside the texts of this model.
FloatOf(t) ==
    LET dots == {i \in DOMAIN t : t[i] = "."}
        ok == /\ t # <<>>
              /\ \A i \in DOMAIN t : t[i] \in Digits \cup {"."}
              /\ Cardinality(dots) <= 1
              /\ \E i \in DOMAIN t : t[i] \in Digits
        ds == SelectSeq(t, LAMBDA c : c # ".")
        scale == IF dots = {} THEN 0 ELSE Len(t) - (CHOOSE i \in dots : TRUE)
    IN  IF ok THEN Some(Normalize(<<NatOf(ds), scale>>)) ELSE None

\* load_data.py to_float, of an optional str.
to_float(x) ==
    LET s == clean_text(x)
    IN  IF x = None \/ s = None THEN None
        ELSE FloatOf(Remove(Val(s), ","))

MonthNames == <<<<"j","a","n","u","a","r","y">>, <<"f","e","b","r","u","a","r","y">>, <<"m","a","r","c","h">>, <<"a","p","r","i","l">>, <<"m","a","y">>, <<"j","u","n","e">>, <<"j","u","l","y">>,
                <<"a","u","g","u","s","t">>, <<"s","e","p","t","e","m","b","e","r">>, <<"o","c","t","o","b","e","r">>, <<"n","o","v","e","m","b","e","r">>, <<"d","e","c","e","m","b","e","r">>>>
MonthAbbrs == [i \in 1..12 |-> SubSeq(MonthNames[i], 1, 3)]
\* _strptime sorts the names longest first to build its alternation.
ByLengthDesc(names) ==
    LET pick(n) == SelectSeq(names, LAMBDA w : Len(w) = n)
    IN  pick(9) \o pick(8) \o pick(7) \o pick(6) \o pick(5) \o pick(4) \o pick(3)
ReNames(names) == ReAny([i \in DOMAIN ByLengthDesc(names) |-> ReLit(ByLengthDesc(names)[i])])

\* _strptime's directive patterns.
RE_d == ReAny(<<ReSeq(ReSet({"3"}), ReSet({"0","1"})),
                ReSeq(ReSet({"1","2"}), ReDigit),
                ReSeq(ReSet({"0"}), ReSet(Digits \ {"0"})),
                ReSet(Digits \ {"0"}),
                ReSeq(ReSet({" "}), ReSet(Digits \ {"0"}))>>)
RE_m == ReAny(<<ReSeq(ReSet({"1"}), ReSet({"0","1","2"})),
                ReSeq(ReSet({"0"}), ReSet(Digits \ {"0"})),
                ReSet(Digits \ {"0"})>>)
RE_Y == ReCat(<<ReDigit, ReDigit, ReDigit, ReDigit>>)
ReSpaces1 == ReSeq(ReSet(Space), ReSpaces)

\* The four formats of parse_date; group 1 is the year, 2 the month, 3 the day.
FMT_B == ReCat(<<ReGroup(2, ReNames(MonthNames)), ReSpaces1, ReGroup(3, RE_d),
                 ReSet({","}), ReSpaces1, ReGroup(1, RE_Y)>>)
FMT_b == ReCat(<<ReGroup(2, ReNames(MonthAbbrs)), ReSpaces1, ReGroup(3, RE_d),
                 ReSet({","}), ReSpaces1, ReGroup(1, RE_Y)>>)
FMT_iso == ReCat(<<ReGroup(1, RE_Y), ReSet({"-"}), ReGroup(2, RE_m), ReSet({"-"}),
                   ReGroup(3, RE_d)>>)
FMT_us == ReCat(<<ReGroup(2, RE_m), ReSet({"/"}), ReGroup(3, RE_d), ReSet({"/"}),
                  ReGroup(1, RE_Y)>>)

MonthOf(t) ==
    IF \A i \in DOMAIN t : t[i] \in Digits THEN NatOf(t)
    ELSE CHOOSE i \in 1..12 : MonthNames[i] = t \/ MonthAbbrs[i] = t

IsLeap(y) == (y % 4 = 0 /\ y % 100 # 0) \/ y % 400 = 0
DaysIn(y, m) ==
    IF m = 2 THEN (IF IsLeap(y) THEN 29 ELSE 28)
    ELSE IF m \in {4, 6, 9, 11} THEN 30 ELSE 31

\* datetime.strptime(s, fmt).date(): the pattern must match at the start and
\* consume all of s, and the day must exist; else ValueError (None here).
DateOf(y, mo, d) == IF y >= 1 /\ d <= DaysIn(y, mo) THEN Some(<<y, mo, d>>) ELSE None
strptime(s, fmt) ==
    Let(ReMatchAt(fmt, Lower(s), 1), LAMBDA m :
        IF m = None \/ Val(m).pos # Len(s) + 1 THEN None
        ELSE DateOf(NatOf(Val(Group(Lower(s), Val(m), 1))),
                    MonthOf(Val(Group(Lower(s), Val(m), 2))),
                    NatOf(Strip(Val(Group(Lower(s), Val(m), 3))))))

\* load_data.py parse_date: the first format that parses.
\* `for fmt in (...)`: the date of the first format that parses s.
RECURSIVE FirstParsed(_, _)
FirstParsed(s, fmts) ==
    IF fmts = <<>> THEN None
    ELSE Let(strptime(s, Head(fmts)), LAMBDA d :
             IF d # None THEN d ELSE FirstParsed(s, Tail(fmts)))
parse_date(value) ==
    Let(clean_text(value), LAMBDA s :
        IF s = None THEN None
        ELSE FirstParsed(Val(s), <<FMT_B, FMT_b, FMT_iso, FMT_us>>))

GPA_RE ==
    ReCat(<<ReB,
            ReOpt(ReCat(<<ReLit(<<"g","p","a">>), ReSpaces, ReOpt(ReSet({":", "="})), ReSpaces>>)),
            ReGroup(1, ReCat(<<ReSet({"0","1","2","3","4"}), ReSet({"."}), ReDigit,
                               ReOpt(ReDigit)>>)),
            ReSpaces,
            ReOpt(ReCat(<<ReLit(<<"m","a","s","t","e","r">>), ReOpt(ReSet({"'"})), ReLit(<<"s">>), ReSpaces>>)),
            ReOpt(ReLit(<<"g","p","a">>)),
            ReB>>)
\* The shape shared by GRE_Q_RE and GRE_V_RE: a labelled three-digit number
\* (group 1), or three digits followed by the letter (group 2).
ReLabelled(labels, letter) ==
    ReAlt(ReCat(<<ReB, ReOpt(ReSeq(ReLit(<<"g","r","e">>), ReSpaces)), labels, ReSpaces,
                  ReOpt(ReSet({":", "="})), ReSpaces,
                  ReGroup(1, ReCat(<<ReDigit, ReDigit, ReDigit>>)), ReB>>),
          ReCat(<<ReB, ReGroup(2, ReCat(<<ReDigit, ReDigit, ReDigit>>)), ReSpaces,
                  ReSet({letter}), ReB>>))
GRE_Q_RE ==
    ReLabelled(ReAny(<<ReSeq(ReLit(<<"q">>), ReOpt(ReLit(<<"u","a","n","t">>))), ReLit(<<"q","u","a","n","t">>), ReLit(<<"q","u","a","n","t","i","t","a","t","i","v","e">>)>>), "q")
GRE_V_RE ==
    ReLabelled(ReAny(<<ReSeq(ReLit(<<"v">>), ReOpt(ReLit(<<"e","r","b">>))), ReLit(<<"v","e","r","b","a","l">>)>>), "v")
GRE_AW_RE ==
    ReCat(<<ReB, ReAny(<<ReLit(<<"a","w","a">>), ReLit(<<"a","w">>), ReLit(<<"a","n","a","l","y","t","i","c","a","l"," ","w","r","i","t","i","n","g">>)>>), ReSpaces,
            ReOpt(ReSet({":", "="})), ReSpaces,
            ReGroup(1, ReCat(<<ReSet({"0","1","2","3","4","5","6"}), ReSet({"."}), ReDigit>>)),
            ReB>>)

\* load_data.py extract_gpa_gre: <<gpa, gre_q, gre_v, gre_aw>>.
\* to_float(m.group(1)) if m else None, and the same of
\* m.group(1) or m.group(2).
Float1(text, m) == IF m # None THEN to_float(Group(text, Val(m), 1)) ELSE None
Float12(text, m) ==
    IF m # None THEN to_float(PyOr(Group(text, Val(m), 1), Group(text, Val(m), 2)))
    ELSE None
ScoresOf(text, t) ==
    <<Float1(text, ReSearch(GPA_RE, t)), Float12(text, ReSearch(GRE_Q_RE, t)),
      Float12(text, ReSearch(GRE_V_RE, t)), Float1(text, ReSearch(GRE_AW_RE, t))>>
extract_gpa_gre(text) == ScoresOf(text, IgnoreCase(text))

(***************************************************************************)
(* load_data.py: load_jsonl, ensure_table, ensure_index, main.             *)
(***************************************************************************)
FALL_2026 == <<"F","a","l","l"," ","2","0","2","6">>

\* r.get(k) of a parsed JSON object, a function from its keys to optional str.
Get(r, k) == IF k \in DOMAIN r THEN r[k] ELSE None

\* load_jsonl: the objects of the lines that are neither blank nor malformed,
\* in file order.  A line is [kind |-> "json", obj |-> r], or of kind "blank"
\* or "bad".
RECURSIVE load_jsonl(_)
load_jsonl(lines) ==
    IF lines = <<>> THEN <<>>
    ELSE IF Head(lines).kind = "json" THEN <<Head(lines).obj>> \o load_jsonl(Tail(lines))
    ELSE load_jsonl(Tail(lines))

\* " ".join(parts)
RECURSIVE Join(_)
Join(parts) ==
    IF parts = <<>> THEN <<>>
    ELSE IF Len(parts) = 1 THEN parts[1]
    ELSE parts[1] \o <<" ">> \o Join(Tail(parts))

\* The combined text of main: module_3 joins `x or ""` of the five fields,
\* module_5 joins the fields that are not None.
Combined(m, fields) ==
    IF m = "m3" THEN Join([i \in DOMAIN fields |-> OrEmpty(fields[i])])
    ELSE LET present == SelectSeq(fields, LAMBDA x : Truthy(x))
         IN  Join([i \in DOMAIN present |-> Val(present[i])])

\* The fields main reads from record r before it forms the combined text.
FieldsOf(r) ==
    [program |-> clean_text(Get(r, "program")),
     comments |-> clean_text(Get(r, "comments")),
     url |-> clean_text(Get(r, "url")),
     date_added |-> parse_date(PyOr(Get(r, "date_added"), Get(r, "date_added_raw"))),
     deg |-> normalize_degree(PyOr(Get(r, "masters_or_phd"), Get(r, "degree"))),
     llm_prog |-> clean_text(PyOr(Get(r, "llm-generated-program"),
                                  Get(r, "llm_generated_program"))),
     llm_uni |-> clean_text(PyOr(Get(r, "llm-generated-university"),
                                 Get(r, "llm_generated_university"))),
     status |-> clean_text(Get(r, "status"))]

\* A fallback that also replaces an extracted term.
TermOr2026_always(term, date_added) ==
    IF date_added # None /\ Val(date_added)[1] = 2026 THEN Some(FALL_2026) ELSE term

\* term: the extracted term, else Fall 2026 for a date in 2026.
TermOr2026(term, date_added) ==
    IF term = None /\ date_added # None /\ Val(date_added)[1] = 2026
    THEN Some(FALL_2026) ELSE term

\* The values of the INSERT, from the fields f and what the extractors made
\* of the combined text.
ValuesOf(f, combined, term, scores) ==
    [program |-> f.program, comments |-> f.comments, date_added |-> f.date_added,
     url |-> f.url,
     status |-> IF ~Truthy(f.status) THEN extract_status(combined) ELSE f.status,
     term |-> TermOr2026(term, f.date_added),
     us_or_international |-> extract_us_intl(combined),
     gpa |-> scores[1], gre |-> scores[2], gre_v |-> scores[3], gre_aw |-> scores[4],
     degree |-> f.deg,
     llm_generated_program |-> f.llm_prog, llm_generated_university |-> f.llm_uni]

\* The body of main's loop up to cur.execute: the inserted values of record r.
RowOf(m, r) ==
    Let(FieldsOf(r), LAMBDA f :
        Let(Combined(m, <<f.program, f.comments, f.status, f.llm_prog, f.llm_uni>>),
            LAMBDA combined :
               ValuesOf(f, combined, extract_term(m, combined), extract_gpa_gre(combined))))

\* json.loads of a well-formed line that holds no object, e.g. the line 42:
\* load_jsonl yields it like any other value.
JsonNumber == [number |-> 42]
\* The parameters main's loop passes to cur.execute for the values recs that
\* load_jsonl yields.  r.get of a value that is no dict raises
\* AttributeError inside the transaction: the entry that stands for it has
\* no columns, and fails the transaction where the loop reaches it.
AttributeError == [raised |-> "AttributeError"]
ParamsOf(m, recs) ==
    [i \in DOMAIN recs |-> IF recs[i] = JsonNumber THEN AttributeError ELSE RowOf(m, recs[i])]

\* The index ensure_index creates when none is there: module_3 indexes the
\* columns, module_5 the COALESCE expressions (as ensure_table does).
IndexCreated(m) == IF m = "m3" THEN "plain" ELSE "coalesce"

\* A stand-in DELETE that keeps the row of highest p_id of each group.
Dedup_keeping_last(rows) ==
    SelectSeq(rows, LAMBDA r : \A j \in DOMAIN rows :
                                  Sig(rows[j]) = Sig(r) => rows[j].p_id <= r.p_id)

\* ensure_index's DELETE: of each group of rows with one signature, all but
\* the row of lowest p_id (rows are kept in p_id order).
Dedup(rows) ==
    LET keep == {i \in DOMAIN rows : \A j \in 1..(i - 1) : Sig(rows[j]) # Sig(rows[i])}
        RECURSIVE pick(_)
        pick(i) == IF i > Len(rows) THEN <<>>
                   ELSE (IF i \in keep THEN <<rows[i]>> ELSE <<>>) \o pick(i + 1)
    IN  pick(1)

\* ensure_index: one transaction that deduplicates and creates the index if
\* no index of that name exists.  [ok, rows, kind].
ensure_index(m, exists, kind, rows, dbUp) ==
    IF ~dbUp \/ ~exists THEN [ok |-> FALSE, rows |-> rows, kind |-> kind]
    ELSE [ok |-> TRUE, rows |-> Dedup(rows),
          kind |-> IF kind = "none" THEN IndexCreated(m) ELSE kind]

(***************************************************************************)
(* module_2/clean.py: the structural cleaner of scraped records.  Its       *)
(* patterns that differ from load_data.py's of the same name carry the      *)
(* prefix clean_.                                                           *)
(***************************************************************************)
\* _clean_value, of an optional str.
_clean_value(value) ==
    IF value = None THEN None
    ELSE Let(Strip(Val(value)), LAMBDA s : IF s # <<>> THEN Some(s) ELSE None)

\* date.isoformat(): YYYY-MM-DD.
Digits2(n) == <<DigitSeq[((n \div 10) % 10) + 1], DigitSeq[(n % 10) + 1]>>
isoformat(d) == Digits2(d[1] \div 100) \o Digits2(d[1]) \o <<"-">> \o Digits2(d[2])
                   \o <<"-">> \o Digits2(d[3])

_parse_date_added(raw) ==
    IF ~Truthy(raw) THEN None
    ELSE Let(FirstParsed(Strip(Val(raw)), <<FMT_B, FMT_b, FMT_iso, FMT_us>>), LAMBDA d :
             IF d = None THEN None ELSE Some(isoformat(Val(d))))

_extract_term(text) == IF text = <<>> THEN None ELSE extract_term("m2", text)

_to_float(x) == IF x = None THEN None ELSE FloatOf(Val(x))

clean_DECISION_RE ==
    ReCat(<<ReB,
            ReGroup(1, ReAny(<<ReLit(<<"a","c","c","e","p","t","e","d">>), ReLit(<<"r","e","j","e","c","t","e","d">>),
                               ReLit(<<"w","a","i","t","l","i","s","t","e","d">>), ReLit(<<"i","n","t","e","r","v","i","e","w">>)>>)),
            ReB>>)
_extract_status(text) ==
    IF text = <<>> THEN None
    ELSE Let(ReSearch(clean_DECISION_RE, IgnoreCase(text)), LAMBDA m :
             IF m = None THEN None ELSE Some(Title(Val(Group(text, Val(m), 1)))))

OTHER_RE == ReCat(<<ReB, ReLit(<<"o","t","h","e","r">>), ReB>>)
_extract_us_intl(text) ==
    IF text = <<>> THEN None
    ELSE IF ReSearch(INTL_RE, IgnoreCase(text)) # None THEN Some(<<"I","n","t","e","r","n","a","t","i","o","n","a","l">>)
    ELSE IF ReSearch(AMERICAN_RE, IgnoreCase(text)) # None THEN Some(<<"A","m","e","r","i","c","a","n">>)
    ELSE IF ReSearch(OTHER_RE, IgnoreCase(text)) # None THEN Some(<<"O","t","h","e","r">>)
    ELSE None

PHD_RE == ReCat(<<ReB, ReAny(<<ReLit(<<"p","h","d">>), ReLit(<<"p","h",".","d",".">>), ReLit(<<"d","o","c","t","o","r","a","t","e">>)>>), ReB>>)
MASTERS_RE ==
    ReCat(<<ReB, ReAny(<<ReLit(<<"m","a","s","t","e","r","s">>), ReLit(<<"m","a","s","t","e","r","'","s">>), ReLit(<<"m","s">>), ReLit(<<"m",".","s",".">>), ReLit(<<"m","s","c">>), ReLit(<<"m","e","n","g">>), ReLit(<<"m",".","e","n","g",".">>)>>), ReB>>)
_extract_degree(text) ==
    IF text = <<>> THEN None
    ELSE IF ReSearch(PHD_RE, IgnoreCase(text)) # None THEN Some(<<"P","h","D">>)
    ELSE IF ReSearch(MASTERS_RE, IgnoreCase(text)) # None THEN Some(<<"M","a","s","t","e","r","s">>)
    ELSE None

\* [:=]? between optional spaces, as every metric pattern has it.
ReSep == ReCat(<<ReSpaces, ReOpt(ReSet({":", "="})), ReSpaces>>)
Re3Digits == ReCat(<<ReDigit, ReDigit, ReDigit>>)
clean_GPA_RE ==
    ReCat(<<ReB, ReLit(<<"g","p","a">>), ReSep,
            ReGroup(1, ReSeq(ReSet({"0","1","2","3","4"}),
                             ReOpt(ReCat(<<ReSet({"."}), ReDigit, ReOpt(ReDigit)>>)))),
            ReB>>)
GRE_TOTAL_RE == ReCat(<<ReB, ReLit(<<"g","r","e">>), ReSep, ReGroup(1, Re3Digits), ReB>>)
clean_GRE_Q_RE ==
    ReCat(<<ReB, ReLit(<<"g","r","e">>), ReSpaces, ReLit(<<"q">>), ReOpt(ReLit(<<"u","a","n","t">>)), ReSep, ReGroup(1, Re3Digits), ReB>>)
clean_GRE_V_RE ==
    ReCat(<<ReB, ReLit(<<"g","r","e">>), ReSpaces, ReLit(<<"v">>), ReOpt(ReLit(<<"e","r","b">>)), ReSep, ReGroup(1, Re3Digits), ReB>>)
clean_GRE_AW_RE ==
    ReCat(<<ReB, ReAny(<<ReLit(<<"a","w","a">>), ReLit(<<"a","w">>), ReLit(<<"a","n","a","l","y","t","i","c","a","l"," ","w","r","i","t","i","n","g">>)>>), ReSep,
            ReGroup(1, ReSeq(ReSet({"0","1","2","3","4","5","6"}),
                             ReOpt(ReSeq(ReSet({"."}), ReDigit)))),
            ReB>>)

\* _extract_metrics: <<gpa, gre, gre_v, gre_aw>>; gre is the quant score if
\* one is written, else the total.
GroupFloat(text, m) == IF m # None THEN _to_float(Group(text, Val(m), 1)) ELSE None
GreOf(text, q, t) ==
    IF q # None THEN _to_float(Group(text, Val(q), 1)) ELSE GroupFloat(text, ReSearch(GRE_TOTAL_RE, t))
MetricsOf(text, t) ==
    <<GroupFloat(text, ReSearch(clean_GPA_RE, t)), GreOf(text, ReSearch(clean_GRE_Q_RE, t), t),
      GroupFloat(text, ReSearch(clean_GRE_V_RE, t)), GroupFloat(text, ReSearch(clean_GRE_AW_RE, t))>>
_extract_metrics(text) ==
    IF text = <<>> THEN <<None, None, None, None>> ELSE MetricsOf(text, IgnoreCase(text))

\* [A-Za-z]{3,9}
ReLetter == ReSet(Range(LowerChars))
RECURSIVE ReUpTo(_, _)
ReUpTo(re, n) == IF n = 0 THEN ReEps ELSE ReOpt(ReSeq(re, ReUpTo(re, n - 1)))
EVENT_DATE_RE ==
    ReCat(<<ReB,
            ReGroup(1, ReAny(<<ReLit(<<"a","c","c","e","p","t","e","d">>), ReLit(<<"r","e","j","e","c","t","e","d">>), ReLit(<<"w","a","i","t","l","i","s","t","e","d">>), ReLit(<<"i","n","t","e","r","v","i","e","w">>)>>)),
            ReSpaces1, ReLit(<<"o","n">>), ReSpaces1,
            ReGroup(2, ReSeq(ReOpt(ReSet({"0","1","2","3"})), ReDigit)),
            ReSpaces1,
            ReGroup(3, ReCat(<<ReLetter, ReLetter, ReLetter, ReUpTo(ReLetter, 6)>>)),
            ReB>>)
_extract_event_date_text(text) ==
    IF text = <<>> THEN None
    ELSE Let(ReSearch(EVENT_DATE_RE, IgnoreCase(text)), LAMBDA m :
             IF m = None THEN None
             ELSE Some(Title(Val(Group(text, Val(m), 1))) \o <<" ","o","n"," ">> \o Val(Group(text, Val(m), 2))
                          \o <<" ">> \o Val(Group(text, Val(m), 3))))

\* clean_record: the cleaned dict built from the raw values and the text
\* that combines program, status and comments.
CleanedOf(raw, combined, metrics) ==
    [program_university_raw |-> raw.program, status_raw |-> raw.status,
     date_added_raw |-> raw.date_added, comments_raw |-> raw.comments,
     source_url |-> raw.url,
     program |-> raw.program, comments |-> raw.comments,
     date_added |-> _parse_date_added(raw.date_added),
     url |-> raw.url,
     status |-> PyOr(_extract_status(combined), raw.status),
     term |-> _extract_term(combined),
     gpa |-> metrics[1], gre |-> metrics[2], gre_v |-> metrics[3], gre_aw |-> metrics[4],
     decision_date_text |-> _extract_event_date_text(combined)]
       @@ ("US/International" :> _extract_us_intl(combined))
       @@ ("Degree" :> _extract_degree(combined))
RawOf(record) ==
    [program |-> _clean_value(Get(record, "program_university_raw")),
     status |-> _clean_value(Get(record, "status_raw")),
     date_added |-> _clean_value(Get(record, "date_added_raw")),
     comments |-> _clean_value(Get(record, "comments_raw")),
     url |-> _clean_value(Get(record, "source_url"))]
clean_record(record) ==
    Let(RawOf(record), LAMBDA raw :
        Let(Strip(Join(<<OrEmpty(raw.program), OrEmpty(raw.status), OrEmpty(raw.comments)>>)),
            LAMBDA combined : CleanedOf(raw, combined, _extract_metrics(combined))))

(***************************************************************************)
(* module_2/scrape.py: the raw record of one table row.  A row is given by  *)
(* what BeautifulSoup reads from it: href, the attribute of its first       *)
(* <a href> (None without one); first, the text of its first cell; and      *)
(* uni, prog, decision, date, notes, the texts of the cells under the       *)
(* detected headers (None when the header or the cell is missing).  Cell    *)
(* texts are stripped by get_text.                                          *)
(***************************************************************************)
BASE_URL == <<"h","t","t","p","s",":","/","/","w","w","w",".","t","h","e","g","r","a","d","c","a","f","e",".","c","o","m">>

\* urllib.parse.urljoin(BASE_URL, href) of an absolute URL, of a path from
\* the root, and of a relative path.
urljoin(base, href) ==
    IF Contains(href, <<":","/","/">>) THEN href
    ELSE IF Head(href) = "/" THEN base \o href
    ELSE base \o <<"/">> \o href

\* _pick_first_link: the row's own link, None without a non-blank href.
_pick_first_link(row) ==
    IF row.href = None THEN None
    ELSE LET href == Strip(Val(row.href))
         IN  IF href = <<>> THEN None ELSE Some(urljoin(BASE_URL, href))

\* cell_text: None for a missing or an empty cell.
cell_text(cell) == IF cell = None \/ Val(cell) = <<>> THEN None ELSE cell

\* str(n) of a row or page number below 100.
NatText(n) == IF n < 10 THEN <<DigitSeq[n + 1]>> ELSE Digits2(n)

\* The record _parse_rows_from_html appends for row number r_i of page
\* page_num, fetched from page_url.
RawRecordOf(row, page_url, page_num, r_i) ==
    LET uni == cell_text(row.uni)
        prog == cell_text(row.prog)
        combined == IF prog # None /\ uni # None
                    THEN Some(Val(prog) \o <<","," ">> \o Val(uni))
                    ELSE IF prog # None THEN prog
                    ELSE IF uni # None THEN uni
                    ELSE IF row.first # <<>> THEN Some(row.first) ELSE None
        link == _pick_first_link(row)
        row_link == IF Truthy(link) THEN link
                    ELSE Some(page_url \o <<"#","r","o","w","-">> \o NatText(page_num)
                              \o <<"-">> \o NatText(r_i))
    IN  [source_url |-> row_link,
         program_university_raw |-> combined,
         status_raw |-> cell_text(row.decision),
         date_added_raw |-> cell_text(row.date),
         comments_raw |-> cell_text(row.notes)]

(***************************************************************************)
(* Inputs of the model: JSONL records and files for load_data.py, and row  *)
(* lists a SCRAPER_FN returns.                                             *)
(***************************************************************************)
\* A posting with every field, LLM values under the hyphenated keys.
RecA == [program |-> Some(<<"M","I","T"," ","C","S">>), comments |-> Some(<<"F","a","l","l"," ","2","0","2","6"," ","G","P","A"," ","3",".","9">>),
         url |-> Some(<<"u","1">>), status |-> Some(<<"A","c","c","e","p","t","e","d">>),
         date_added |-> Some(<<"2","0","2","6","-","0","1","-","1","5">>), masters_or_phd |-> Some(<<"P","h","D">>)]
        @@ ("llm-generated-program" :> Some(<<"C","S">>))
        @@ ("llm-generated-university" :> Some(<<"M","I","T">>))
\* The same (url, program, comments) with other field values: another status,
\* an unparseable date, another degree, an empty and a missing LLM value.
RecA2 == [program |-> Some(<<" ","M","I","T"," ","C","S">>), comments |-> Some(<<"F","a","l","l"," ","2","0","2","6"," ","G","P","A"," ","3",".","9">>),
          url |-> Some(<<"u","1">>), status |-> Some(<<"R","e","j","e","c","t","e","d">>),
          date_added |-> Some(<<"s","o","o","n">>), degree |-> Some(<<"M","S">>),
          llm_generated_program |-> Some(<<>>)]
\* A posting without comments and without LLM values.
RecN == [program |-> Some(<<"J","H","U">>), url |-> Some(<<"u","2">>),
         date_added_raw |-> Some(<<"F","e","b"," ","1",","," ","2","0","2","6">>)]
\* The same key (blank comments are cleaned to None) with LLM values under
\* the underscore keys and a status in the text.
RecN2 == [program |-> Some(<<"J","H","U">>), comments |-> Some(<<" ">>), url |-> Some(<<"u","2">>),
          llm_generated_program |-> Some(<<"w","a","i","t"," ","l","i","s","t","e","d">>),
          llm_generated_university |-> Some(<<"J","H","U">>)]
\* A posting with a key of its own.
RecB == [program |-> Some(<<"C","M","U">>), comments |-> Some(<<"S","2","5"," ","A","m","e","r","i","c","a","n"," ","1","6","5","Q">>),
         url |-> Some(<<"u","3">>)]

JsonLine(r) == [kind |-> "json", obj |-> r]
BlankLine == [kind |-> "blank"]
BadLine == [kind |-> "bad"]

\* The files main is run on; None stands for a path that does not exist.
Files == <<Some(<<JsonLine(RecA2), BlankLine, BadLine, JsonLine(RecN2)>>),
           Some(<<JsonLine(RecA), JsonLine(RecN), JsonLine(RecB)>>),
           None>>

\* The row lists a scraper returns (dicts keyed by column).
Scraped == <<<<RecA2, RecN2>>, <<RecA, RecN, RecB>>, <<>>>>
Batches == [b \in DOMAIN Scraped |-> [i \in DOMAIN Scraped[b] |-> RowOf("m5", Scraped[b][i])]]

\* The values main's loop passes to cur.execute for the records of a file,
\* tabulated per module and path.
Params ==
    [m \in {"m3", "m5"} |->
       [f \in DOMAIN Files |->
          IF Files[f] = None THEN <<>>
          ELSE ParamsOf(m, load_jsonl(Val(Files[f])))]]

\* A main that runs ensure_index before it looks for the file.
main_file_index_first(m, exists, kind, rows, id, file, vals, fail) ==
    LET e == ensure_index(m, exists, kind, rows, fail # "ensure_index")
        ins == InsertAll(m, e.kind, [ok |-> TRUE, rows |-> e.rows, nextId |-> id], vals)
    IN  IF ~e.ok THEN [ok |-> FALSE, rows |-> rows, nextId |-> id, kind |-> kind]
        ELSE IF file = None \/ fail = "insert"
        THEN [ok |-> FALSE, rows |-> e.rows, nextId |-> id, kind |-> e.kind]
        ELSE IF ~ins.ok
        THEN [ok |-> FALSE, rows |-> e.rows, nextId |-> ins.nextId, kind |-> e.kind]
        ELSE [ok |-> TRUE, rows |-> ins.rows, nextId |-> ins.nextId, kind |-> e.kind]

\* main on a file (None when the path does not exist) whose records yield
\* the INSERT values vals: FileNotFoundError when the file is missing; else
\* ensure_index in its own transaction, then every record of the file in one
\* transaction.  fail names the connection that cannot be opened, if any.
\* [ok, rows, nextId, kind].
main_file(m, exists, kind, rows, id, file, vals, fail) ==
    IF file = None THEN [ok |-> FALSE, rows |-> rows, nextId |-> id, kind |-> kind]
    ELSE LET e == ensure_index(m, exists, kind, rows, fail # "ensure_index")
             ins == InsertAll(m, e.kind, [ok |-> TRUE, rows |-> e.rows, nextId |-> id], vals)
         IN  IF ~e.ok THEN [ok |-> FALSE, rows |-> rows, nextId |-> id, kind |-> kind]
             ELSE IF fail = "insert"
             THEN [ok |-> FALSE, rows |-> e.rows, nextId |-> id, kind |-> e.kind]
             ELSE IF ~ins.ok
             THEN [ok |-> FALSE, rows |-> e.rows, nextId |-> ins.nextId, kind |-> e.kind]
             ELSE [ok |-> TRUE, rows |-> ins.rows, nextId |-> ins.nextId, kind |-> e.kind]

\* main on the file at path.
main(m, exists, kind, rows, id, path, fail) ==
    main_file(m, exists, kind, rows, id, Files[path], Params[m][path], fail)

(***************************************************************************)
(* The web application (app.py).  Request r runs on thread r; the worker   *)
(* it starts runs on thread MaxRequests + r.                               *)
(***************************************************************************)
Tid(r) == r
WTid(r) == MaxRequests + r

\* The stages of _pull_worker, in program order.
Stages(m, scraperFn) ==
    IF m = "m3" THEN <<"scrape.py", "clean.py", "llm_hosting", "load_data.py">>
    ELSE IF scraperFn THEN <<"scraper_fn", "_load_rows">>
    ELSE <<"scrape.py", "clean.py", "load_data.py">>

\* The response of a rejected and of an accepted POST: modules 4 and 5 answer
\* 409 {"busy": true} and 200 {"ok": true}; module_3 flashes and redirects.
BusyCode(m) == IF m = "m3" THEN 302 ELSE 409
OkCode(m) == IF m = "m3" THEN 302 ELSE 200

\* A request thread enters `with _LOCK:` of pull_data, update_analysis or
\* index.  Requests are numbered in their order of arrival at the lock; at
\* most MaxPages of them are page views.
AcquireForRequest(r, kind) ==
    /\ req[r].pc = "new"
    /\ kind = "index" => Cardinality({q \in Reqs : req[q].kind = "index"}) < MaxPages
    /\ \A q \in 1..(r - 1) : req[q].pc # "new"
    /\ _LOCK = Free
    /\ _LOCK' = Tid(r)
    /\ req' = [req EXCEPT ![r] = [@ EXCEPT !.kind = kind, !.pc = "cs"]]
    /\ UNCHANGED <<probe, module, SCRAPER_FN, _PULL_RUNNING, _PULL_MESSAGE, _LAST_ANALYSIS,
                   wrk, tableExists, indexKind, applicants, nextId, hist>>

\* A pull_data that sets the flag and leaves the status message as it was.
PullDataCheck_flag_only(r) ==
    IF _PULL_RUNNING
    THEN /\ req' = [req EXCEPT ![r] = [@ EXCEPT !.pc = "done", !.outcome = "busy",
                                                !.code = BusyCode(module)]]
         /\ UNCHANGED <<_PULL_RUNNING, _PULL_MESSAGE>>
    ELSE /\ _PULL_RUNNING' = TRUE
         /\ _PULL_MESSAGE' = _PULL_MESSAGE
         /\ req' = [req EXCEPT ![r] = [@ EXCEPT !.pc = "start"]]

\* A pull_data that claims the flag without testing it.
PullDataCheck_untested(r) ==
    /\ _PULL_RUNNING' = TRUE
    /\ _PULL_MESSAGE' = MSG_STARTED
    /\ req' = [req EXCEPT ![r] = [@ EXCEPT !.pc = "start"]]

\* A pull_data whose rejection rewrites the flag and the status message.
PullDataCheck_rewrites(r) ==
    IF _PULL_RUNNING
    THEN /\ req' = [req EXCEPT ![r] = [@ EXCEPT !.pc = "done", !.outcome = "busy",
                                                !.code = BusyCode(module)]]
         /\ _PULL_RUNNING' = FALSE
         /\ _PULL_MESSAGE' = MSG_INITIAL
    ELSE /\ _PULL_RUNNING' = TRUE
         /\ _PULL_MESSAGE' = MSG_STARTED
         /\ req' = [req EXCEPT ![r] = [@ EXCEPT !.pc = "start"]]

\* pull_data, the body of `with _LOCK:`: reject when a pull is running, else
\* claim the flag.  Leaving the block releases the lock.
PullDataCheck(r) ==
    IF _PULL_RUNNING
    THEN /\ req' = [req EXCEPT ![r] = [@ EXCEPT !.pc = "done", !.outcome = "busy",
                                                !.code = BusyCode(module)]]
         /\ UNCHANGED <<_PULL_RUNNING, _PULL_MESSAGE>>
    ELSE /\ _PULL_RUNNING' = TRUE
         /\ _PULL_MESSAGE' = MSG_STARTED
         /\ req' = [req EXCEPT ![r] = [@ EXCEPT !.pc = "start"]]

pull_data_locked(r) ==
    /\ req[r].pc = "cs" /\ req[r].kind = "pull"
    /\ _LOCK = Tid(r)
    /\ PullDataCheck(r)
    /\ _LOCK' = Free
    /\ UNCHANGED <<probe, module, SCRAPER_FN, _LAST_ANALYSIS, wrk,
                   tableExists, indexKind, applicants, nextId, hist>>

\* pull_data after the lock: threading.Thread(target=_pull_worker).start(),
\* then the 200 response.
pull_data_start(r) ==
    /\ req[r].pc = "start" /\ req[r].kind = "pull"
    /\ wrk' = [wrk EXCEPT ![r] = [NoWrk EXCEPT !.kind = "pull", !.pc = "run", !.stage = 1]]
    /\ req' = [req EXCEPT ![r] = [@ EXCEPT !.pc = "done", !.outcome = "ok",
                                           !.code = OkCode(module)]]
    /\ UNCHANGED <<probe, module, SCRAPER_FN, _PULL_RUNNING, _PULL_MESSAGE, _LAST_ANALYSIS,
                   _LOCK, tableExists, indexKind, applicants, nextId, hist>>

\* An update_analysis that does not test the flag.
UpdateAnalysisCheck_untested(r) ==
    req' = [req EXCEPT ![r] = [@ EXCEPT !.pc = "start"]]

\* update_analysis, the body of `with _LOCK:`: reject when a pull is running.
UpdateAnalysisCheck(r) ==
    IF _PULL_RUNNING
    THEN req' = [req EXCEPT ![r] = [@ EXCEPT !.pc = "done", !.outcome = "busy",
                                             !.code = BusyCode(module)]]
    ELSE req' = [req EXCEPT ![r] = [@ EXCEPT !.pc = "start"]]

update_analysis_locked(r) ==
    /\ req[r].pc = "cs" /\ req[r].kind = "analysis"
    /\ _LOCK = Tid(r)
    /\ UpdateAnalysisCheck(r)
    /\ _LOCK' = Free
    /\ UNCHANGED <<probe, module, SCRAPER_FN, _PULL_RUNNING, _PULL_MESSAGE, _LAST_ANALYSIS,
                   wrk, tableExists, indexKind, applicants, nextId, hist>>

\* update_analysis after the lock: start _analysis_worker, answer 200.
update_analysis_start(r) ==
    /\ req[r].pc = "start" /\ req[r].kind = "analysis"
    /\ wrk' = [wrk EXCEPT ![r] = [NoWrk EXCEPT !.kind = "analysis", !.pc = "run"]]
    /\ req' = [req EXCEPT ![r] = [@ EXCEPT !.pc = "done", !.outcome = "ok",
                                           !.code = OkCode(module)]]
    /\ UNCHANGED <<probe, module, SCRAPER_FN, _PULL_RUNNING, _PULL_MESSAGE, _LAST_ANALYSIS,
                   _LOCK, tableExists, indexKind, applicants, nextId, hist>>

\* index (GET /), the body of `with _LOCK:`: the three globals are copied for
\* the template, one assignment at a time: pull_running, pull_message,
\* last_analysis.  Leaving the block releases the lock.
index_locked(r) ==
    /\ req[r].kind = "index"
    /\ _LOCK = Tid(r)
    /\ CASE req[r].pc = "cs" ->
              /\ req' = [req EXCEPT ![r] = [@ EXCEPT !.seen = <<_PULL_RUNNING>>,
                                                     !.pc = "pull_message"]]
              /\ _LOCK' = _LOCK
         [] req[r].pc = "pull_message" ->
              /\ req' = [req EXCEPT ![r] = [@ EXCEPT !.seen = Append(@, _PULL_MESSAGE),
                                                     !.pc = "last_analysis"]]
              /\ _LOCK' = _LOCK
         [] req[r].pc = "last_analysis" ->
              /\ req' = [req EXCEPT ![r] = [@ EXCEPT !.seen = Append(@, _LAST_ANALYSIS),
                                                     !.pc = "fetch_metrics"]]
              /\ _LOCK' = Free
         [] OTHER -> FALSE
    /\ UNCHANGED <<probe, module, SCRAPER_FN, _PULL_RUNNING, _PULL_MESSAGE, _LAST_ANALYSIS,
                   wrk, tableExists, indexKind, applicants, nextId, hist>>

\* index after the lock: metrics = fetch_metrics(app) runs its queries on the
\* request thread, then the page is rendered.  module_3's fetch_metrics
\* raises when the database cannot be read (500); module_4 catches it and
\* module_5's fetch_metrics returns its defaults (200).
index_fetch_metrics(r) ==
    /\ req[r].pc = "fetch_metrics" /\ req[r].kind = "index"
    /\ \E dbUp \in BOOLEAN :
          req' = [req EXCEPT ![r] =
                    IF module = "m3" /\ ~(dbUp /\ tableExists)
                    THEN [@ EXCEPT !.pc = "done", !.outcome = "error", !.code = 500]
                    ELSE [@ EXCEPT !.pc = "done", !.outcome = "ok", !.code = 200]]
    /\ UNCHANGED <<probe, module, SCRAPER_FN, _PULL_RUNNING, _PULL_MESSAGE, _LAST_ANALYSIS,
                   _LOCK, wrk, tableExists, indexKind, applicants, nextId, hist>>

(***************************************************************************)
(* The background workers (app.py _pull_worker, _analysis_worker).         *)
(***************************************************************************)
\* The log entry of a storage operation: what ran, on which input, whether it
\* succeeded, whether it repeats the successful operation before it, and the
\* number of rows before it.  cli counts the operations run by hand.
Logged(op, input, ok, byHand) ==
    [op |-> op, input |-> input, ok |-> ok,
     repeat |-> ok /\ hist.ok /\ hist.op = op /\ hist.input = input,
     before |-> Len(applicants),
     cli |-> IF byHand THEN hist.cli + 1 ELSE hist.cli]

\* A worker that goes on after a failed stage and reports completion.
AfterStage_continuing(w, ok) ==
    IF w.stage = Len(Stages(module, SCRAPER_FN))
    THEN [w EXCEPT !.pc = "finally", !.msg = MSG_COMPLETE, !.stage = 0, !.rows = 0]
    ELSE [w EXCEPT !.stage = @ + 1]

\* The worker after a stage: on to the next stage, or to the finally block
\* with "Pull Data complete." after the last, or to the finally block with
\* "Pull Data failed: ..." when the stage raised or exited non-zero.
AfterStage(w, ok) ==
    IF ~ok THEN [w EXCEPT !.pc = "finally", !.msg = MSG_FAILED, !.stage = 0, !.rows = 0]
    ELSE IF w.stage = Len(Stages(module, SCRAPER_FN))
    THEN [w EXCEPT !.pc = "finally", !.msg = MSG_COMPLETE, !.stage = 0, !.rows = 0]
    ELSE [w EXCEPT !.stage = @ + 1]

AtStage(r, names) ==
    /\ wrk[r].kind = "pull" /\ wrk[r].pc = "run"
    /\ Stages(module, SCRAPER_FN)[wrk[r].stage] \in names

\* rows = scraper_fn(): the injected scraper returns a list of rows (b > 0)
\* or raises (b = 0).
pull_scraper_fn(r) ==
    /\ AtStage(r, {"scraper_fn"})
    /\ \E b \in 0..Len(Batches) :
          wrk' = [wrk EXCEPT ![r] = AfterStage([@ EXCEPT !.rows = b], b # 0)]
    /\ UNCHANGED <<probe, module, SCRAPER_FN, _PULL_RUNNING, _PULL_MESSAGE, _LAST_ANALYSIS,
                   _LOCK, req, tableExists, indexKind, applicants, nextId, hist>>

\* _load_rows(app, rows) on the worker thread.
pull_load_rows(r) ==
    /\ AtStage(r, {"_load_rows"})
    /\ \E dbUp \in BOOLEAN :
          LET res == _load_rows(module, tableExists, indexKind, applicants, nextId,
                                Batches[wrk[r].rows], dbUp)
          IN  /\ applicants' = res.rows
              /\ nextId' = res.nextId
              /\ hist' = Logged("_load_rows", wrk[r].rows, res.ok, FALSE)
              /\ wrk' = [wrk EXCEPT ![r] = AfterStage(@, res.ok)]
    /\ UNCHANGED <<probe, module, SCRAPER_FN, _PULL_RUNNING, _PULL_MESSAGE, _LAST_ANALYSIS,
                   _LOCK, req, tableExists, indexKind>>

\* A subprocess stage that does not touch the table: scrape.py, clean.py, and
\* module_3's LLM step, which is skipped when its input file is absent.  The
\* stage exits with 0 (ok) or not.
pull_subprocess(r) ==
    /\ AtStage(r, {"scrape.py", "clean.py", "llm_hosting"})
    /\ \E ok \in BOOLEAN :
          wrk' = [wrk EXCEPT ![r] = AfterStage(@, ok)]
    /\ UNCHANGED <<probe, module, SCRAPER_FN, _PULL_RUNNING, _PULL_MESSAGE, _LAST_ANALYSIS,
                   _LOCK, req, tableExists, indexKind, applicants, nextId, hist>>

\* The subprocess `python load_data.py`: main on the file found at the path.
pull_load_data(r) ==
    /\ AtStage(r, {"load_data.py"})
    /\ \E f \in DOMAIN Files, fail \in {"none", "ensure_index", "insert"} :
          LET res == main(module, tableExists, indexKind, applicants, nextId, f, fail)
          IN  /\ applicants' = res.rows
              /\ nextId' = res.nextId
              /\ indexKind' = res.kind
              /\ hist' = Logged("main", f, res.ok, FALSE)
              /\ wrk' = [wrk EXCEPT ![r] = AfterStage(@, res.ok)]
    /\ UNCHANGED <<probe, module, SCRAPER_FN, _PULL_RUNNING, _PULL_MESSAGE, _LAST_ANALYSIS,
                   _LOCK, req, tableExists>>

\* _pull_worker's finally block: `with _LOCK:` ...
pull_finally_acquire(r) ==
    /\ wrk[r].kind = "pull" /\ wrk[r].pc = "finally"
    /\ _LOCK = Free
    /\ _LOCK' = WTid(r)
    /\ wrk' = [wrk EXCEPT ![r] = [@ EXCEPT !.pc = "cs"]]
    /\ UNCHANGED <<probe, module, SCRAPER_FN, _PULL_RUNNING, _PULL_MESSAGE, _LAST_ANALYSIS,
                   req, tableExists, indexKind, applicants, nextId, hist>>

\* A finally block that records the message but leaves the flag set.
PullFinallyBody_stuck(r) ==
    /\ _PULL_RUNNING' = _PULL_RUNNING
    /\ _PULL_MESSAGE' = wrk[r].msg

\* ... _PULL_RUNNING = False; _PULL_MESSAGE = msg; the thread ends.
PullFinallyBody(r) ==
    /\ _PULL_RUNNING' = FALSE
    /\ _PULL_MESSAGE' = wrk[r].msg

pull_finally_locked(r) ==
    /\ wrk[r].kind = "pull" /\ wrk[r].pc = "cs"
    /\ _LOCK = WTid(r)
    /\ PullFinallyBody(r)
    /\ _LOCK' = Free
    /\ wrk' = [wrk EXCEPT ![r] = [@ EXCEPT !.pc = "done"]]
    /\ UNCHANGED <<probe, module, SCRAPER_FN, _LAST_ANALYSIS,
                   req, tableExists, indexKind, applicants, nextId, hist>>

\* _analysis_worker: the queries (query_data.fetch_metrics in module_5, the
\* query_data.py subprocess in module_3).  The report is modelled by the total
\* it counts.  When the database cannot be read, module_5's thread dies with
\* the exception; module_3 keeps the script's error output as the report.
ErrorReport == Some(<<"error">>)
analysis_query(r) ==
    /\ wrk[r].kind = "analysis" /\ wrk[r].pc = "run"
    /\ \E dbUp \in BOOLEAN :
          IF dbUp /\ tableExists
          THEN wrk' = [wrk EXCEPT ![r] = [@ EXCEPT !.pc = "finally",
                                             !.result = Some(<<"total", Len(applicants)>>)]]
          ELSE IF module = "m3"
          THEN wrk' = [wrk EXCEPT ![r] = [@ EXCEPT !.pc = "finally", !.result = ErrorReport]]
          ELSE wrk' = [wrk EXCEPT ![r] = [@ EXCEPT !.pc = "done"]]
    /\ UNCHANGED <<probe, module, SCRAPER_FN, _PULL_RUNNING, _PULL_MESSAGE, _LAST_ANALYSIS,
                   _LOCK, req, tableExists, indexKind, applicants, nextId, hist>>

analysis_acquire(r) ==
    /\ wrk[r].kind = "analysis" /\ wrk[r].pc = "finally"
    /\ _LOCK = Free
    /\ _LOCK' = WTid(r)
    /\ wrk' = [wrk EXCEPT ![r] = [@ EXCEPT !.pc = "cs"]]
    /\ UNCHANGED <<probe, module, SCRAPER_FN, _PULL_RUNNING, _PULL_MESSAGE, _LAST_ANALYSIS,
                   req, tableExists, indexKind, applicants, nextId, hist>>

analysis_locked(r) ==
    /\ wrk[r].kind = "analysis" /\ wrk[r].pc = "cs"
    /\ _LOCK = WTid(r)
    /\ _LAST_ANALYSIS' = wrk[r].result
    /\ _LOCK' = Free
    /\ wrk' = [wrk EXCEPT ![r] = [@ EXCEPT !.pc = "done", !.result = None]]
    /\ UNCHANGED <<probe, module, SCRAPER_FN, _PULL_RUNNING, _PULL_MESSAGE,
                   req, tableExists, indexKind, applicants, nextId, hist>>

(***************************************************************************)
(* The loader run by hand: python load_data.py, and the schema helpers     *)
(* that the test fixtures call.                                            *)
(***************************************************************************)
run_load_data(f, fail) ==
    /\ hist.cli < MaxLoads
    /\ LET res == main(module, tableExists, indexKind, applicants, nextId, f, fail)
       IN  /\ applicants' = res.rows
           /\ nextId' = res.nextId
           /\ indexKind' = res.kind
           /\ hist' = Logged("main", f, res.ok, TRUE)
    /\ UNCHANGED <<probe, module, SCRAPER_FN, _PULL_RUNNING, _PULL_MESSAGE, _LAST_ANALYSIS,
                   _LOCK, req, wrk, tableExists>>

call_ensure_index ==
    /\ hist.cli < MaxLoads
    /\ LET res == ensure_index(module, tableExists, indexKind, applicants, TRUE)
       IN  /\ applicants' = res.rows
           /\ indexKind' = res.kind
           /\ hist' = Logged("ensure_index", 0, res.ok, TRUE)
    /\ UNCHANGED <<probe, module, SCRAPER_FN, _PULL_RUNNING, _PULL_MESSAGE, _LAST_ANALYSIS,
                   _LOCK, req, wrk, tableExists, nextId>>

\* module_5 ensure_table: CREATE TABLE IF NOT EXISTS, CREATE UNIQUE INDEX IF
\* NOT EXISTS on the COALESCE expressions.
call_ensure_table ==
    /\ module = "m5"
    /\ hist.cli < MaxLoads
    /\ tableExists' = TRUE
    /\ indexKind' = IF indexKind = "none" THEN "coalesce" ELSE indexKind
    /\ hist' = Logged("ensure_table", 0, TRUE, TRUE)
    /\ UNCHANGED <<probe, module, SCRAPER_FN, _PULL_RUNNING, _PULL_MESSAGE, _LAST_ANALYSIS,
                   _LOCK, req, wrk, applicants, nextId>>

(***************************************************************************)
(* The state machine.                                                      *)
(***************************************************************************)
\* The state after construction, for the modules ms.
InitIn(ms) ==
    /\ module \in ms
    /\ SCRAPER_FN \in BOOLEAN
    /\ module = "m3" => ~SCRAPER_FN
    /\ _PULL_RUNNING = FALSE
    /\ _PULL_MESSAGE = MSG_INITIAL
    /\ _LAST_ANALYSIS = None
    /\ _LOCK = Free
    /\ req = [r \in Reqs |-> NoReq]
    /\ wrk = [r \in Reqs |-> NoWrk]
    /\ tableExists \in BOOLEAN
    /\ module = "m3" => tableExists
    /\ indexKind = IF module = "m5" /\ tableExists THEN "coalesce" ELSE "none"
    /\ applicants = <<>>
    /\ nextId = 1
    /\ hist = NoHist
    /\ probe = NoProbe

Init == InitIn({"m3", "m5"})

Next ==
    \/ \E r \in Reqs, kind \in {"pull", "analysis", "index"} : AcquireForRequest(r, kind)
    \/ \E r \in Reqs : pull_data_locked(r)
    \/ \E r \in Reqs : pull_data_start(r)
    \/ \E r \in Reqs : update_analysis_locked(r)
    \/ \E r \in Reqs : update_analysis_start(r)
    \/ \E r \in Reqs : index_locked(r)
    \/ \E r \in Reqs : index_fetch_metrics(r)
    \/ \E r \in Reqs : pull_scraper_fn(r)
    \/ \E r \in Reqs : pull_load_rows(r)
    \/ \E r \in Reqs : pull_subprocess(r)
    \/ \E r \in Reqs : pull_load_data(r)
    \/ \E r \in Reqs : pull_finally_acquire(r)
    \/ \E r \in Reqs : pull_finally_locked(r)
    \/ \E r \in Reqs : analysis_query(r)
    \/ \E r \in Reqs : analysis_acquire(r)
    \/ \E r \in Reqs : analysis_locked(r)
    \/ \E f \in DOMAIN Files, fail \in {"none", "ensure_index", "insert"} : run_load_data(f, fail)
    \/ call_ensure_index
    \/ call_ensure_table

Spec == Init /\ [][Next]_vars

\* Fairness: the scheduler eventually runs every thread that can take a step,
\* and every subprocess and scraper call returns.  Requests are not obliged
\* to arrive.
Fairness ==
    \A r \in Reqs :
       /\ WF_vars(pull_data_locked(r)) /\ WF_vars(pull_data_start(r))
       /\ WF_vars(update_analysis_locked(r)) /\ WF_vars(update_analysis_start(r))
       /\ WF_vars(index_locked(r)) /\ WF_vars(index_fetch_metrics(r))
       /\ WF_vars(pull_scraper_fn(r)) /\ WF_vars(pull_load_rows(r))
       /\ WF_vars(pull_subprocess(r)) /\ WF_vars(pull_load_data(r))
       /\ WF_vars(pull_finally_acquire(r)) /\ WF_vars(pull_finally_locked(r))
       /\ WF_vars(analysis_query(r)) /\ WF_vars(analysis_acquire(r))
       /\ WF_vars(analysis_locked(r))

FairSpec == Spec /\ Fairness

(***************************************************************************)
(* Properties of the web application.                                      *)
(***************************************************************************)
\* The requests that hold the pull: the flag is claimed and the thread not
\* yet started, or the worker has not finished its finally block.
PullHolders ==
    {r \in Reqs : \/ req[r].kind = "pull" /\ req[r].pc = "start"
                  \/ wrk[r].kind = "pull" /\ wrk[r].pc # "done"}

\* The step in which request r leaves its critical section.
LeavesCS(r, kind) == req[r].kind = kind /\ req[r].pc = "cs" /\ req'[r].pc # "cs"

\* C1: at most one pull worker is running at a time, and while one is (or is
\* about to be started by the request that claimed the flag) _PULL_RUNNING is
\* True; the flag was claimed by that request inside its critical section.
C1_AtMostOnePullWorker ==
    /\ Cardinality(PullHolders) <= 1
    /\ PullHolders # {} => _PULL_RUNNING
    /\ \A r \in Reqs : wrk[r].kind = "pull" => req[r].kind = "pull" /\ req[r].outcome = "ok"

\* Two pulls were requested while the first worker was still running: one
\* worker runs, the other request was turned away.
C1_Witness ==
    \E r, q \in Reqs :
       /\ wrk[r].kind = "pull" /\ wrk[r].pc = "run"
       /\ req[q].kind = "pull" /\ req[q].outcome = "busy"

\* C2: a POST /pull-data that finds _PULL_RUNNING True in its critical
\* section answers busy (409 in module_5), starts no worker, and leaves
\* _PULL_RUNNING, _PULL_MESSAGE and the applicants table as they were; a
\* rejected request never gets a worker afterwards.
C2_BusyPullRejected ==
    [][\A r \in Reqs :
          /\ (LeavesCS(r, "pull") /\ _PULL_RUNNING) =>
                /\ req'[r].pc = "done" /\ req'[r].outcome = "busy"
                /\ req'[r].code = BusyCode(module)
                /\ module = "m5" => req'[r].code = 409
                /\ wrk' = wrk
                /\ UNCHANGED <<_PULL_RUNNING, _PULL_MESSAGE, applicants>>
          /\ (req[r].kind = "pull" /\ req[r].outcome = "busy") => wrk'[r] = NoWrk]_vars

C2_Witness ==
    \E r \in Reqs :
       /\ req[r].kind = "pull" /\ req[r].outcome = "busy" /\ req[r].code = 409
       /\ wrk[r] = NoWrk /\ _PULL_RUNNING /\ _PULL_MESSAGE = MSG_STARTED

\* C3: a POST /update-analysis that finds _PULL_RUNNING True answers busy
\* (409 in module_5), starts no analysis worker and leaves _LAST_ANALYSIS as
\* it was; one that finds it False is accepted (200 in module_5) and starts
\* exactly one analysis worker, its own.
C3_UpdateAnalysisGate ==
    [][\A r \in Reqs :
          /\ (LeavesCS(r, "analysis") /\ _PULL_RUNNING) =>
                /\ req'[r].pc = "done" /\ req'[r].outcome = "busy"
                /\ req'[r].code = BusyCode(module)
                /\ module = "m5" => req'[r].code = 409
                /\ wrk' = wrk
                /\ UNCHANGED _LAST_ANALYSIS
          /\ (req[r].kind = "analysis" /\ req[r].outcome = "busy") => wrk'[r] = NoWrk
          /\ (LeavesCS(r, "analysis") /\ ~_PULL_RUNNING) =>
                /\ req'[r].pc = "start" /\ wrk' = wrk
          /\ (req[r].kind = "analysis" /\ req[r].pc = "start" /\ req'[r].pc # "start") =>
                /\ req'[r].outcome = "ok"
                /\ req'[r].code = OkCode(module)
                /\ module = "m5" => req'[r].code = 200
                /\ wrk[r] = NoWrk /\ wrk'[r].kind = "analysis" /\ wrk'[r].pc = "run"
                /\ \A q \in Reqs \ {r} : wrk'[q] = wrk[q]
          /\ (req[r].kind = "analysis" /\ wrk[r].kind # "none") => wrk'[r].kind = "analysis"]_vars

\* One update-analysis was turned away during a pull, and one was accepted
\* and its worker started.
C3_Witness ==
    \E r, q \in Reqs :
       /\ req[r].kind = "analysis" /\ req[r].outcome = "busy" /\ req[r].code = 409
       /\ wrk[r] = NoWrk
       /\ req[q].kind = "analysis" /\ req[q].outcome = "ok" /\ req[q].code = 200
       /\ wrk[q].kind = "analysis"

\* C4: every accepted pull eventually releases the busy flag: whenever
\* _PULL_RUNNING is True it eventually is False again, whether the stages
\* succeed, exit non-zero or raise.
C4_FlagReleased == _PULL_RUNNING ~> ~_PULL_RUNNING

\* A pull failed, the flag came back, and a later pull was accepted and ran to
\* completion.
C4_Witness ==
    \E r, q \in Reqs :
       /\ r < q
       /\ wrk[r].kind = "pull" /\ wrk[r].pc = "done" /\ wrk[r].msg = MSG_FAILED
       /\ wrk[q].kind = "pull" /\ wrk[q].pc = "done" /\ wrk[q].msg = MSG_COMPLETE
       /\ ~_PULL_RUNNING

(***************************************************************************)
(* Properties of the loader and the table.                                 *)
(***************************************************************************)
\* The set of signatures of a sequence of rows.
Keys(rows) == {Sig(rows[i]) : i \in DOMAIN rows}

\* The rows the last storage operation was given.
LoadOps == {"main", "_load_rows"}
InputOf(h) ==
    CASE h.op = "main" -> Params[module][h.input]
      [] h.op = "_load_rows" -> Batches[h.input]
      [] OTHER -> <<>>

\* This step is a storage operation: it wrote the log or changed the database.
StorageStep == hist' # hist \/ dbVars' # dbVars
LoadStep == StorageStep /\ hist'.op \in LoadOps /\ hist'.ok

\* The row of rows with the given p_id, if any.
ById(rows, id) == {rows[i] : i \in {j \in DOMAIN rows : rows[j].p_id = id}}

\* C5: loading is idempotent: when a load or pull is run a second time on the
\* same input (records with absent url, program or comments included), the
\* number of rows is what it was after the first run.
C5_Idempotent ==
    (hist.op \in LoadOps /\ hist.repeat) => Len(applicants) = hist.before

\* C6: no two rows of applicants have the same (url, program, comments) key
\* with NULL read as the empty string.
C6_UniqueKeys ==
    \A i, j \in DOMAIN applicants : Sig(applicants[i]) = Sig(applicants[j]) => i = j

C9_LlmNeverErased ==
    [][\A i \in DOMAIN applicants :
          \A row \in ById(applicants', applicants[i].p_id) :
             /\ Truthy(applicants[i].llm_generated_program) =>
                   Truthy(row.llm_generated_program)
             /\ Truthy(applicants[i].llm_generated_university) =>
                   Truthy(row.llm_generated_university)]_vars

\* A record with an empty and a missing LLM value was loaded over a stored row
\* of its key, whose LLM values are still there.
C9_Witness ==
    /\ hist.op = "main" /\ hist.ok /\ hist.before > 0
    /\ \E k \in DOMAIN InputOf(hist) : \E i \in 1..hist.before :
          /\ i \in DOMAIN applicants
          /\ Sig(applicants[i]) = Sig(InputOf(hist)[k])
          /\ InputOf(hist)[k].llm_generated_program = None
          /\ InputOf(hist)[k].llm_generated_university = None
          /\ Truthy(applicants[i].llm_generated_program)
          /\ Truthy(applicants[i].llm_generated_university)

\* The extracted columns.
Extracted == {"status", "term", "us_or_international", "gpa", "gre", "gre_v", "gre_aw",
              "degree", "date_added"}

\* C10: a load or pull leaves the extracted fields of every row stored before
\* it as they were, and the first row stored for a key is never removed.
C10_ExtractedKept ==
    [][\A i \in DOMAIN applicants :
          /\ \A row \in ById(applicants', applicants[i].p_id) :
                \A c \in Extracted : row[c] = applicants[i][c]
          /\ (\A j \in 1..(i - 1) : Sig(applicants[j]) # Sig(applicants[i])) =>
                ById(applicants', applicants[i].p_id) # {}]_vars

\* A record that would yield another status, degree and date was loaded over a
\* stored row of its key, which kept its own.
C10_Witness ==
    /\ hist.op \in LoadOps /\ hist.ok /\ hist.before > 0
    /\ \E k \in DOMAIN InputOf(hist) : \E i \in 1..hist.before :
          /\ i \in DOMAIN applicants
          /\ Sig(applicants[i]) = Sig(InputOf(hist)[k])
          /\ applicants[i].status # InputOf(hist)[k].status
          /\ applicants[i].degree # InputOf(hist)[k].degree
          /\ applicants[i].date_added # InputOf(hist)[k].date_added

\* C12: when the input JSONL file does not exist, main fails before it
\* touches storage: the step inserts no row, deletes no row as a duplicate
\* and creates no index.
C12_MissingFileTouchesNothing ==
    [][(StorageStep /\ hist'.op = "main" /\ Files[hist'.input] = None)
          => (~hist'.ok /\ UNCHANGED dbVars)]_vars

\* main has failed on a missing file while the table held rows of one key
\* that a deduplication would have deleted.
C12_Witness ==
    /\ hist.op = "main" /\ Files[hist.input] = None /\ ~hist.ok
    /\ \E i, j \in DOMAIN applicants : i # j /\ Sig(applicants[i]) = Sig(applicants[j])

\* C24: ensure_index removes only redundant rows: of every (url, program,
\* comments) group of the table, NULL read as the empty string, exactly one
\* row remains, the one of lowest p_id, with all its columns unchanged; no
\* other row appears; and a second call changes nothing.
C24_EnsureIndexKeepsFirst ==
    [][(StorageStep /\ hist'.op = "ensure_index" /\ hist'.ok) =>
          /\ \A i \in DOMAIN applicants :
                LET group == {j \in DOMAIN applicants : Sig(applicants[j]) = Sig(applicants[i])}
                    first == CHOOSE j \in group : \A k \in group : applicants[j].p_id <= applicants[k].p_id
                IN  {j \in DOMAIN applicants' : Sig(applicants'[j]) = Sig(applicants[i])}
                       = {j \in DOMAIN applicants' : applicants'[j] = applicants[first]}
                    /\ Cardinality({j \in DOMAIN applicants' : applicants'[j] = applicants[first]}) = 1
          /\ Keys(applicants') = Keys(applicants)
          /\ ensure_index(module, tableExists, indexKind', applicants', TRUE)
                = [ok |-> TRUE, rows |-> applicants', kind |-> indexKind']]_vars
\* ensure_index has deleted a row of a table that held a key twice.
C24_Witness ==
    /\ hist.op = "ensure_index" /\ hist.ok
    /\ Len(applicants) >= 1 /\ Len(applicants) < hist.before

(***************************************************************************)
(* Properties of the request threads.                                      *)
(***************************************************************************)
\* C18: no request handler does pipeline or query work on the request
\* thread: a request thread is only ever waiting to arrive, inside its
\* `with _LOCK:` block, starting the worker thread, or done; it is never at
\* a scrape, a load or a database query of its own.
C18_HandlersOffThread ==
    \A r \in Reqs : req[r].pc \in {"new", "cs", "start", "done"}

\* C25: an analysis worker never runs its queries while a pull is in
\* flight: no analysis worker takes its query step in a state where
\* _PULL_RUNNING is True.
C25_NoAnalysisDuringPull ==
    [][\A r \in Reqs :
          (wrk[r].kind = "analysis" /\ wrk[r].pc = "run" /\ wrk'[r].pc # "run")
             => ~_PULL_RUNNING]_vars

\* The flag and the message belong together: the flag is set exactly when the
\* message is the one pull_data stores.
Together(running, message) == running <=> message = MSG_STARTED

\* C29: the busy flag and the status message change together: in every
\* state _PULL_RUNNING is True exactly when _PULL_MESSAGE is the "Pull Data
\* started" message; and the three values index has copied when it leaves
\* the lock are the values of the three globals at that instant, so the
\* flag and the message of every rendered page belong together.
C29_FlagAndMessageTogether ==
    [][/\ Together(_PULL_RUNNING, _PULL_MESSAGE)
       /\ Together(_PULL_RUNNING', _PULL_MESSAGE')
       /\ \A r \in Reqs :
             /\ (req[r].pc = "last_analysis" /\ req'[r].pc = "fetch_metrics") =>
                   req'[r].seen = <<_PULL_RUNNING, _PULL_MESSAGE, _LAST_ANALYSIS>>
             /\ Len(req'[r].seen) = 3 =>
                   Together(req'[r].seen[1], req'[r].seen[2])]_vars
\* A page was rendered with the flag set and the started message, and the
\* pull has ended since.
C29_Witness ==
    /\ ~_PULL_RUNNING /\ _PULL_MESSAGE = MSG_COMPLETE
    /\ \E r \in Reqs :
          /\ req[r].kind = "index" /\ req[r].pc = "done"
          /\ Len(req[r].seen) = 3 /\ req[r].seen[1] /\ req[r].seen[2] = MSG_STARTED

\* The worker of request r is at a stage that loads the table.
AtLoad(r) == AtStage(r, {"load_data.py", "_load_rows"})

\* C26: the pull worker runs its stages in program order, starting with the
\* first, and stops at the first that fails: a step of a running worker
\* either moves to the next stage, after a stage that succeeded, or ends the
\* run; a worker that has left its stages runs none again; the message is
\* the completion message only after the last stage succeeded, otherwise
\* the failure message; and that message is what the finally block stores
\* in _PULL_MESSAGE.
C26_StagesInOrder ==
    [][\A r \in Reqs :
          /\ (wrk[r].kind = "none" /\ wrk'[r].kind = "pull") =>
                (wrk'[r].pc = "run" /\ wrk'[r].stage = 1)
          /\ (wrk[r].kind = "pull" /\ wrk[r].pc = "run" /\ wrk'[r] # wrk[r]) =>
                \/ /\ wrk'[r].pc = "run" /\ wrk'[r].stage = wrk[r].stage + 1
                   /\ AtLoad(r) => hist'.ok
                \/ /\ wrk'[r].pc = "finally"
                   /\ wrk'[r].msg \in {MSG_COMPLETE, MSG_FAILED}
                   /\ wrk'[r].msg = MSG_COMPLETE =>
                         /\ wrk[r].stage = Len(Stages(module, SCRAPER_FN))
                         /\ AtLoad(r) => hist'.ok
                   /\ (AtLoad(r) /\ ~hist'.ok) => wrk'[r].msg = MSG_FAILED
          /\ (wrk[r].kind = "pull" /\ wrk[r].pc # "run") => wrk'[r].pc # "run"
          /\ (wrk[r].kind = "pull" /\ wrk[r].pc = "cs" /\ wrk'[r].pc = "done") =>
                _PULL_MESSAGE' = wrk[r].msg]_vars
\* A pull whose load stage failed has ended with the failure message.
C26_Witness ==
    /\ hist.op \in LoadOps /\ ~hist.ok /\ hist.cli = 0
    /\ _PULL_MESSAGE = MSG_FAILED /\ ~_PULL_RUNNING
    /\ \E r \in Reqs : wrk[r].kind = "pull" /\ wrk[r].pc = "done" /\ wrk[r].msg = MSG_FAILED

(***************************************************************************)
(* module_5 app.py: fetch_metrics.  The queries, in the order the code     *)
(* runs them on one cursor; a list of result rows is modelled by the set   *)
(* of its rows.                                                            *)
(***************************************************************************)
\* The metrics dict as fetch_metrics builds it before the try.
MetricsDefaults ==
    [fall_2026 |-> 0, pct_intl |-> None, avg_gpa |-> None, avg_gre |-> None,
     avg_gre_v |-> None, avg_gre_aw |-> None, avg_gpa_american_fall |-> None,
     acceptance_pct |-> None, avg_gpa_accepted |-> None,
     q7 |-> 0, q8 |-> 0, q9 |-> 0,
     q10a_title |-> <<"T","o","p"," ","5"," ","t","e","r","m","s"," ","b","y"," ","v","o","l","u","m","e">>, q10a_rows |-> {},
     q10b_title |-> <<"T","o","p"," ","5"," ","u","n","i","v","e","r","s","i","t","i","e","s"," ","i","n"," ","F","a","l","l"," ","2","0","2","6">>, q10b_rows |-> {},
     term_dist |-> {}, decision_dist |-> {}]

\* x ILIKE 'p%' and x ILIKE '%p%', p in lower case; NULL matches nothing.
ILikePrefix(x, p) ==
    x # None /\ Len(Val(x)) >= Len(p) /\ Lower(SubSeq(Val(x), 1, Len(p))) = p
ILikeHas(x, p) == x # None /\ Contains(Lower(Val(x)), p)

\* The rows of the table that satisfy where (a set of row numbers).
Where(rows, where(_)) == {i \in DOMAIN rows : where(rows[i])}
\* SELECT ROUND(AVG(col)) over the rows of sel: NULL when col is NULL in
\* all of them, else the average of the values (kept as the values).
Avg(rows, sel, col) ==
    LET vals == {i \in sel : rows[i][col] # None}
    IN  IF vals = {} THEN None ELSE Some([avg |-> [i \in vals |-> Val(rows[i][col])]])
\* SELECT ROUND(100.0 * num / NULLIF(den, 0), 2): NULL when den is 0.
Pct(num, den) == IF den = 0 THEN None ELSE Some([pct |-> <<num, den>>])
\* SELECT COALESCE(NULLIF(col, ''), label), COUNT(*) ... GROUP BY 1.
GroupOf(row, col, label) ==
    IF row[col] = None \/ row[col] = Some(<<>>) THEN label ELSE Val(row[col])
GroupCounts(rows, sel, col, label) ==
    {<<GroupOf(rows[i], col, label),
       Cardinality({j \in sel : GroupOf(rows[j], col, label) = GroupOf(rows[i], col, label)})>> :
        i \in sel}

IsFall2026(row) == row.term = Some(FALL_2026)
IsAccepted(row) == ILikePrefix(row.status, <<"a","c","c","e","p","t","e","d">>)
IsDecided(row) ==
    \/ ILikePrefix(row.status, <<"a","c","c","e","p","t","e","d">>) \/ ILikePrefix(row.status, <<"r","e","j","e","c","t","e","d">>)
    \/ ILikePrefix(row.status, <<"w","a","i","t","l","i","s","t","e","d">>) \/ ILikePrefix(row.status, <<"i","n","t","e","r","v","i","e","w">>)
In2026(row) == row.date_added # None /\ Val(row.date_added)[1] = 2026
Q7(row) ==
    /\ \/ ILikeHas(row.program, <<"j","o","h","n","s"," ","h","o","p","k","i","n","s">>) \/ ILikeHas(row.program, <<"j","h","u">>)
       \/ ILikeHas(row.llm_generated_university, <<"j","o","h","n","s"," ","h","o","p","k","i","n","s">>)
    /\ \/ ILikeHas(row.program, <<"c","o","m","p","u","t","e","r"," ","s","c","i","e","n","c","e">>) \/ ILikeHas(row.comments, <<"c","o","m","p","u","t","e","r"," ","s","c","i","e","n","c","e">>)
       \/ ILikeHas(row.llm_generated_program, <<"c","o","m","p","u","t","e","r"," ","s","c","i","e","n","c","e">>)
    /\ (ILikePrefix(row.degree, <<"m","a","s","t","e","r">>) \/ ILikeHas(row.program, <<"m","a","s","t","e","r">>))
Q8(row) ==
    /\ IsAccepted(row) /\ In2026(row)
    /\ (ILikeHas(row.program, <<"c","o","m","p","u","t","e","r"," ","s","c","i","e","n","c","e">>) \/ ILikeHas(row.comments, <<"c","o","m","p","u","t","e","r"," ","s","c","i","e","n","c","e">>))
    /\ (row.degree = Some(<<"P","h","D">>) \/ ILikeHas(row.program, <<"p","h","d">>))
    /\ \/ ILikeHas(row.program, <<"m","i","t">>) \/ ILikeHas(row.program, <<"s","t","a","n","f","o","r","d">>)
       \/ ILikeHas(row.program, <<"c","a","r","n","e","g","i","e"," ","m","e","l","l","o","n">>) \/ ILikeHas(row.program, <<"g","e","o","r","g","e","t","o","w","n">>)
Q9(row) ==
    /\ IsAccepted(row) /\ In2026(row)
    /\ \/ ILikeHas(row.llm_generated_program, <<"c","o","m","p","u","t","e","r"," ","s","c","i","e","n","c","e">>)
       \/ ILikeHas(row.program, <<"c","o","m","p","u","t","e","r"," ","s","c","i","e","n","c","e">>)
    /\ (row.degree = Some(<<"P","h","D">>) \/ ILikeHas(row.program, <<"p","h","d">>))
    /\ \/ ILikeHas(row.llm_generated_university, <<"m","i","t">>)
       \/ ILikeHas(row.llm_generated_university, <<"s","t","a","n","f","o","r","d">>)
       \/ ILikeHas(row.llm_generated_university, <<"c","a","r","n","e","g","i","e"," ","m","e","l","l","o","n">>)
       \/ ILikeHas(row.program, <<"m","i","t">>) \/ ILikeHas(row.program, <<"s","t","a","n","f","o","r","d">>)

\* What the query that computes the metric q selects from the table.
ResultOf(q, rows) ==
    LET all == DOMAIN rows
        fall == Where(rows, IsFall2026)
    IN  CASE q = "fall_2026" -> Cardinality(fall)
          [] q = "pct_intl" ->
                Pct(Cardinality(Where(rows, LAMBDA r : ILikePrefix(r.us_or_international, <<"i","n","t","e","r","n","a","t","i","o","n","a","l">>))),
                    Cardinality(Where(rows, LAMBDA r : Truthy(r.us_or_international))))
          [] q = "avg_gpa" -> Avg(rows, all, "gpa")
          [] q = "avg_gre" -> Avg(rows, all, "gre")
          [] q = "avg_gre_v" -> Avg(rows, all, "gre_v")
          [] q = "avg_gre_aw" -> Avg(rows, all, "gre_aw")
          [] q = "avg_gpa_american_fall" ->
                Avg(rows, {i \in fall : ILikePrefix(rows[i].us_or_international, <<"a","m","e","r","i","c","a","n">>)}, "gpa")
          [] q = "acceptance_pct" ->
                Pct(Cardinality({i \in fall : IsAccepted(rows[i])}),
                    Cardinality({i \in fall : IsDecided(rows[i])}))
          [] q = "avg_gpa_accepted" -> Avg(rows, {i \in fall : IsAccepted(rows[i])}, "gpa")
          [] q = "q7" -> Cardinality(Where(rows, Q7))
          [] q = "q8" -> Cardinality(Where(rows, Q8))
          [] q = "q9" -> Cardinality(Where(rows, Q9))
          [] q = "q10a_rows" -> GroupCounts(rows, all, "term", <<"N","o"," ","t","e","r","m"," ","d","e","t","e","c","t","e","d">>)
          [] q = "q10b_rows" -> GroupCounts(rows, fall, "llm_generated_university", <<"U","n","k","n","o","w","n">>)
          [] q = "term_dist" -> GroupCounts(rows, all, "term", <<"N","o"," ","t","e","r","m"," ","d","e","t","e","c","t","e","d">>)
          [] q = "decision_dist" -> GroupCounts(rows, all, "status", <<"N","o"," ","s","t","a","t","u","s">>)

\* The statements of the `with conn.cursor() as cur:` block: each is one
\* cur.execute of the query q, followed by one assignment to metrics per
\* key of keys, each from a fetch of its own: cur.fetchone()[0] ("one"),
\* cur.fetchone()[0] or 0 ("one_or_0") or cur.fetchall() ("all").  The
\* pct_intl query is executed and never fetched; the loop over the four
\* averages assigns metrics[key] twice, from two calls of fetchone.
Statements ==
    <<[q |-> "fall_2026", keys |-> <<"fall_2026">>, how |-> "one_or_0"],
      [q |-> "pct_intl", keys |-> <<>>, how |-> "one"],
      [q |-> "avg_gpa", keys |-> <<"avg_gpa", "avg_gpa">>, how |-> "one"],
      [q |-> "avg_gre", keys |-> <<"avg_gre", "avg_gre">>, how |-> "one"],
      [q |-> "avg_gre_v", keys |-> <<"avg_gre_v", "avg_gre_v">>, how |-> "one"],
      [q |-> "avg_gre_aw", keys |-> <<"avg_gre_aw", "avg_gre_aw">>, how |-> "one"],
      [q |-> "avg_gpa_american_fall", keys |-> <<"avg_gpa_american_fall">>, how |-> "one"],
      [q |-> "acceptance_pct", keys |-> <<"acceptance_pct">>, how |-> "one"],
      [q |-> "avg_gpa_accepted", keys |-> <<"avg_gpa_accepted">>, how |-> "one"],
      [q |-> "q7", keys |-> <<"q7">>, how |-> "one_or_0"],
      [q |-> "q8", keys |-> <<"q8">>, how |-> "one_or_0"],
      [q |-> "q9", keys |-> <<"q9">>, how |-> "one_or_0"],
      [q |-> "q10a_rows", keys |-> <<"q10a_rows">>, how |-> "all"],
      [q |-> "q10b_rows", keys |-> <<"q10b_rows">>, how |-> "all"],
      [q |-> "term_dist", keys |-> <<"term_dist">>, how |-> "all"],
      [q |-> "decision_dist", keys |-> <<"decision_dist">>, how |-> "all"]>>

\* Where a call can fail: 0 is get_conn raising, i the i-th cur.execute
\* raising (a missing table fails the first), NoFailure none of them.
NoFailure == Len(Statements) + 1
FailurePoints == 0..NoFailure

\* The cursor after the execute of an aggregate query holds one row: the
\* n-th fetchone returns it for n = 1 and None after it, and None[0] raises
\* TypeError.  fetchall returns the rows that are left.  [value, exc].
Fetch(how, result, n) ==
    IF how = "all" THEN [value |-> IF n = 1 THEN result ELSE {}, exc |-> None]
    ELSE IF n > 1 THEN [value |-> None, exc |-> Some("TypeError")]
    ELSE [value |-> IF how = "one_or_0" /\ result = 0 THEN 0 ELSE result, exc |-> None]

\* The assignments of statement s from its n-th on.  run is [metrics,
\* executed, fetches, exc]: the dict, the queries executed and fetched from
\* so far, and the exception that ended the block.
RECURSIVE Assign(_, _, _, _)
Assign(run, s, result, n) ==
    IF n > Len(s.keys) THEN run
    ELSE LET f == Fetch(s.how, result, n)
             fetched == [run EXCEPT !.fetches = Append(@, s.q)]
         IN  IF f.exc # None THEN [fetched EXCEPT !.exc = f.exc]
             ELSE Assign([fetched EXCEPT !.metrics[s.keys[n]] = f.value], s, result, n + 1)

\* The statements from the i-th on, until one raises.
RECURSIVE RunQueries(_, _, _, _)
RunQueries(run, rows, i, fail) ==
    IF i > Len(Statements) THEN run
    ELSE IF i = fail THEN [run EXCEPT !.exc = Some("Error")]
    ELSE LET s == Statements[i]
             done == Assign([run EXCEPT !.executed = Append(@, s.q)], s,
                            ResultOf(s.q, rows), 1)
         IN  IF done.exc # None THEN done ELSE RunQueries(done, rows, i + 1, fail)

\* A stand-in that lets the exception through, as module_3's fetch_metrics
\* does.
Caught_reraising(exc) == exc
\* `except Exception: pass`.
Caught(exc) == None

\* fetch_metrics(app) on the table rows.  exc is the exception the call
\* raises to its caller, if any.
fetch_metrics(rows, fail) ==
    LET start == [metrics |-> MetricsDefaults, executed |-> <<>>, fetches |-> <<>>,
                  exc |-> None]
        run == IF fail = 0 THEN [start EXCEPT !.exc = Some("OperationalError")]
               ELSE RunQueries(start, rows, 1, fail)
    IN  [run EXCEPT !.exc = Caught(run.exc)]

(***************************************************************************)
(* The functions called on their own, as the unit tests and the other      *)
(* modules call them: one call, recorded in probe with its result.  The    *)
(* loader's functions are those of the module the state names; clean.py    *)
(* and scrape.py are module_2's.                                           *)
(***************************************************************************)
\* The texts of at most n words of vocab, joined by single spaces.
RECURSIVE Phrases(_, _)
Phrases(vocab, n) ==
    IF n = 0 THEN {<<>>}
    ELSE LET shorter == Phrases(vocab, n - 1)
         IN  shorter \cup {IF p = <<>> THEN w ELSE p \o <<" ">> \o w :
                              p \in shorter, w \in vocab}

TermWords == {<<"F","a","l","l">>, <<"A","U","T","U","M","N">>, <<"w", DOTLESS_I, "n","t","e","r">>, <<"2","0","2","6">>, <<"2","6">>,
              <<"S","2","5">>, <<"s","u","'","2","4">>, <<"F", "\\u2019", "2", "7">>}
NationWords == {<<"I","n","t","e","r","n","a","t","i","o","n","a","l">>, <<"A","M","E","R","I","C","A","N">>, <<"o","t","h","e","r">>, <<"O","t","h","e","r","s">>, <<"x">>}
TermTexts == Phrases(TermWords, MaxWords)
NationTexts == Phrases(NationWords, MaxWords)

\* extract_term(text) of the loader of the state's module.
call_extract_term(text) ==
    /\ probe = NoProbe /\ module # "m2"
    /\ probe' = [fn |-> "extract_term", in |-> text, out |-> extract_term(module, text)]
    /\ UNCHANGED <<module, SCRAPER_FN, appVars, dbVars, hist>>

\* clean.py _extract_term(text).
call_clean_extract_term(text) ==
    /\ probe = NoProbe /\ module = "m2"
    /\ probe' = [fn |-> "_extract_term", in |-> text, out |-> _extract_term(text)]
    /\ UNCHANGED <<module, SCRAPER_FN, appVars, dbVars, hist>>

\* extract_us_intl(text) of the loader.
call_extract_us_intl(text) ==
    /\ probe = NoProbe /\ module # "m2"
    /\ probe' = [fn |-> "extract_us_intl", in |-> text, out |-> extract_us_intl(text)]
    /\ UNCHANGED <<module, SCRAPER_FN, appVars, dbVars, hist>>

\* clean.py _extract_us_intl(text).
call_clean_extract_us_intl(text) ==
    /\ probe = NoProbe /\ module = "m2"
    /\ probe' = [fn |-> "_extract_us_intl", in |-> text, out |-> _extract_us_intl(text)]
    /\ UNCHANGED <<module, SCRAPER_FN, appVars, dbVars, hist>>

\* The JSONL records main is called on.  With a program and a url: every
\* combination of present and absent comments and LLM university, of a raw
\* status that is absent, the two-word form, or no decision word, and of a
\* date that is in 2026, in another year, or unparseable.  And bare records
\* with and without a program and a url.
LlmKeys == {"llm-generated-program", "llm_generated_program",
            "llm-generated-university", "llm_generated_university"}
RecordOf(p, c, u, st, d, lu) ==
    [program |-> p, comments |-> c, url |-> u, status |-> st, date_added |-> d]
       @@ ("llm-generated-university" :> lu)
Records ==
    {RecordOf(Some(<<"M","I","T">>), c, Some(<<"u","1">>), st, d, lu) :
        c \in {None, Some(<<"F","a","l","l"," ","2","0","2","5">>)},
        st \in {None, Some(<<"W","a","i","t"," ","l","i","s","t","e","d">>), Some(<<"P","e","n","d","i","n","g">>)},
        d \in {Some(<<"2","0","2","6","-","0","1","-","1","5">>), Some(<<"F","e","b"," ","1",","," ","2","0","2","5">>), Some(<<"s","o","o","n">>)},
        lu \in {None, Some(<<"A","m","e","r","i","c","a","n"," ","U">>)}}
    \cup {RecordOf(p, None, u, None, None, None) :
             p \in {None, Some(<<"M","I","T">>)}, u \in {None, Some(<<"u","1">>), Some(<<" ">>)}}

\* The files of at most n lines, each of one of the given lines.
RECURSIVE LineSeqs(_, _)
LineSeqs(lines, n) ==
    IF n = 0 THEN {<<>>}
    ELSE LET shorter == LineSeqs(lines, n - 1)
         IN  shorter \cup {Append(ls, l) : ls \in shorter, l \in lines}

\* The files load_jsonl and main are called on: records, blank lines, lines
\* that are not JSON, and lines of JSON that hold no object.
JsonlFiles ==
    LineSeqs({JsonLine(RecB), JsonLine(RecN), BlankLine, BadLine, JsonLine(JsonNumber)},
             MaxLines)
MainFiles ==
    {<<JsonLine(r)>> : r \in Records}
       \cup LineSeqs({JsonLine(RecB), BadLine, JsonLine(JsonNumber)}, MaxLines)
       \cup {<<BlankLine, JsonLine(RecB)>>, <<JsonLine(RecN), BlankLine, JsonLine(RecB)>>}

\* load_jsonl on a file of the given lines.
call_load_jsonl(lines) ==
    /\ probe = NoProbe /\ module # "m2"
    /\ probe' = [fn |-> "load_jsonl", in |-> lines, out |-> load_jsonl(lines)]
    /\ UNCHANGED <<module, SCRAPER_FN, appVars, dbVars, hist>>

\* main on a file of the given lines, with the table as it is.
call_main(lines) ==
    /\ probe = NoProbe /\ module # "m2"
    /\ LET res == main_file(module, tableExists, indexKind, applicants, nextId, Some(lines),
                            ParamsOf(module, load_jsonl(lines)), "none")
       IN  /\ applicants' = res.rows
           /\ nextId' = res.nextId
           /\ indexKind' = res.kind
           /\ probe' = [fn |-> "main", in |-> lines, ok |-> res.ok]
    /\ UNCHANGED <<module, SCRAPER_FN, appVars, tableExists, hist>>

\* The table rows the scraper is called on: with and without a link, a
\* university and a program cell, and an empty or a filled first cell; with a
\* decision that is absent, the two-word form, dated, or no decision word.
RowOfTable(href, uni, prog, first, decision, date, notes) ==
    [href |-> href, uni |-> uni, prog |-> prog, first |-> first, decision |-> decision,
     date |-> date, notes |-> notes]
TableRows ==
    {RowOfTable(href, uni, prog, first, decision, date, notes) :
        href \in {None, Some(<<"/","r","e","s","u","l","t","/","1">>), Some(<<" ">>)},
        uni \in {None, Some(<<"M","I","T">>)},
        prog \in {None, Some(<<"C","S">>), Some(<<>>)},
        first \in {<<>>, <<"M","I","T"," ","C","S">>},
        decision \in {None, Some(<<"W","a","i","t"," ","l","i","s","t","e","d">>), Some(<<"A","c","c","e","p","t","e","d"," ","o","n"," ","3"," ","J","a","n">>), Some(<<"P","e","n","d","i","n","g">>)},
        date \in {None, Some(<<"F","e","b"," ","1",","," ","2","0","2","6">>)},
        notes \in {None, Some(<<"F","2","6"," ","A","m","e","r","i","c","a","n">>)}}
\* _build_survey_url(page), with PER_PAGE = 100.
_build_survey_url(page) ==
    BASE_URL \o <<"/","s","u","r","v","e","y","/","i","n","d","e","x",".","p","h","p","?","p","a","g","e","=">> \o NatText(page) \o <<"&","p","p","=","1","0","0","&","s","o","r","t","=","n","e","w","e","s","t">>

\* scrape.py: the record _parse_rows_from_html builds for the first row of
\* page 1.
call_parse_row(row) ==
    /\ probe = NoProbe /\ module = "m2"
    /\ probe' = [fn |-> "_parse_rows_from_html", in |-> row,
                 out |-> RawRecordOf(row, _build_survey_url(1), 1, 1)]
    /\ UNCHANGED <<module, SCRAPER_FN, appVars, dbVars, hist>>

\* The records clean_record is called on: those the scraper builds for the
\* rows without separate university and program cells.
ScrapedRecords ==
    {RawRecordOf(row, _build_survey_url(1), 1, 1) :
        row \in {r \in TableRows : r.uni = None /\ r.prog = None /\ r.href # Some(<<" ">>)}}

\* clean.py clean_record(record).
call_clean_record(record) ==
    /\ probe = NoProbe /\ module = "m2"
    /\ probe' = [fn |-> "clean_record", in |-> record, out |-> clean_record(record)]
    /\ UNCHANGED <<module, SCRAPER_FN, appVars, dbVars, hist>>

\* module_5 app.fetch_metrics(app) on the table as it is, fresh or after a
\* load, with the failure the database answers with.
call_fetch_metrics(fail) ==
    /\ probe.fn \in {"none", "main"} /\ module = "m5"
    /\ probe' = [fn |-> "fetch_metrics", fail |-> fail, out |-> fetch_metrics(applicants, fail)]
    /\ UNCHANGED <<module, SCRAPER_FN, appVars, dbVars, hist>>

\* The labelled scores a posting's text can hold, one per field of
\* extract_gpa_gre's result, and the texts made of them: every arrangement
\* of all four, of three and of one of them, and GPAs at and above 4.00.
ScoreLabels == <<<<"G","P","A"," ","3",".","9">>, <<"Q","u","a","n","t"," ","1","6","5">>, <<"V","e","r","b","a","l"," ","1","6","0">>, <<"A","W","A"," ","4",".","5">>>>
RECURSIVE JoinLabelled(_)
JoinLabelled(order) ==
    IF order = <<>> THEN <<>>
    ELSE IF Len(order) = 1 THEN ScoreLabels[order[1]]
    ELSE ScoreLabels[order[1]] \o <<" ">> \o JoinLabelled(Tail(order))
Arrangements ==
    {o \in UNION {[1..n -> DOMAIN ScoreLabels] : n \in {1, 3, 4}} :
        \A i, j \in DOMAIN o : i # j => o[i] # o[j]}
ScoreTexts ==
    {JoinLabelled(o) : o \in Arrangements}
       \cup {<<"G","P","A"," ","4",".","5">>, <<"G","P","A",":"," ","4",".","0","0">>, <<"4",".","9","9">>, <<"G","P","A"," ","5",".","2">>}

\* load_data.py extract_gpa_gre(text).
call_extract_gpa_gre(text) ==
    /\ probe = NoProbe /\ module = "m5"
    /\ probe' = [fn |-> "extract_gpa_gre", in |-> text, out |-> extract_gpa_gre(text)]
    /\ UNCHANGED <<module, SCRAPER_FN, appVars, dbVars, hist>>

\* clean.py _extract_metrics(text).
call_extract_metrics(text) ==
    /\ probe = NoProbe /\ module = "m2"
    /\ probe' = [fn |-> "_extract_metrics", in |-> text, out |-> _extract_metrics(text)]
    /\ UNCHANGED <<module, SCRAPER_FN, appVars, dbVars, hist>>

\* The values to_float is called on: None, a str, or an int m * 10^e.
PyNone == [type |-> "None"]
PyStr(s) == [type |-> "str", s |-> s]
PyInt(m, e) == [type |-> "int", m |-> m, e |-> e]
\* sys.float_info.max_10_exp: float(x) of an int of more than 309 digits
\* raises OverflowError.
MAX_10_EXP == 308
\* to_float(x) with its isinstance branch: [value, exc], exc the exception
\* that leaves the call.
to_float_of(x) ==
    IF x.type = "None" THEN [value |-> None, exc |-> None]
    ELSE IF x.type = "int"
    THEN IF Len(NatText(x.m)) + x.e > MAX_10_EXP + 1
         THEN [value |-> None, exc |-> Some("OverflowError")]
         ELSE [value |-> Some(<<x.m, 0 - x.e>>), exc |-> None]
    ELSE [value |-> to_float(Some(x.s)), exc |-> None]
ToFloatValues ==
    {PyNone, PyInt(5, 0), PyInt(1, 400)}
       \cup {PyStr(t) : t \in {<<"3",".","9">>, <<"1",",","2","3","4">>, <<"a","b","c">>, <<>>, <<" ","1","2"," ">>, <<"4",".","5",".","6">>, <<".">>}}
DateValues ==
    {None} \cup {Some(t) : t \in {<<"2","0","2","6","-","0","1","-","1","5">>, <<"F","e","b"," ","1",","," ","2","0","2","5">>, <<"J","a","n","u","a","r","y"," ","3","1",","," ","2","0","2","6">>,
                                   <<"0","2","/","0","1","/","2","0","2","6">>, <<"2","0","2","6","-","0","2","-","3","0">>, <<"s","o","o","n">>, <<" ">>, <<>>}}

call_to_float(x) ==
    /\ probe = NoProbe /\ module = "m5"
    /\ probe' = [fn |-> "to_float", in |-> x, out |-> to_float_of(x)]
    /\ UNCHANGED <<module, SCRAPER_FN, appVars, dbVars, hist>>

\* parse_date(value): every ValueError of strptime is caught in the loop.
call_parse_date(value) ==
    /\ probe = NoProbe /\ module = "m5"
    /\ probe' = [fn |-> "parse_date", in |-> value,
                 out |-> [value |-> parse_date(value), exc |-> None]]
    /\ UNCHANGED <<module, SCRAPER_FN, appVars, dbVars, hist>>

\* str(x) of a str and of an int below 10^9.
str(x) == IF x.type = "str" THEN x.s ELSE NatText(x.m)

\* clean_text(x: Any): [value, exc].
clean_text_of(x) ==
    [value |-> IF x.type = "None" THEN None ELSE clean_text(Some(str(x))), exc |-> None]
\* clean.py _clean_value(value): module_2's takes str(value); module_3's
\* calls value.strip(), which a value that is no str does not have.
clean_value_of(m, x) ==
    IF x.type = "None" THEN [value |-> None, exc |-> None]
    ELSE IF m = "m3" /\ x.type # "str" THEN [value |-> None, exc |-> Some("AttributeError")]
    ELSE [value |-> _clean_value(Some(str(x))), exc |-> None]

\* The texts of at most n of the given characters.
RECURSIVE TextsOver(_, _)
TextsOver(chars, n) ==
    IF n = 0 THEN {<<>>}
    ELSE LET shorter == TextsOver(chars, n - 1)
         IN  shorter \cup {Append(t, c) : t \in shorter, c \in chars}
NormalizerValues ==
    {PyNone, PyInt(42, 0)} \cup {PyStr(t) : t \in TextsOver({"a", " ", "\t", NUL}, MaxChars)}

call_clean_text(x) ==
    /\ probe = NoProbe /\ module = "m5"
    /\ probe' = [fn |-> "clean_text", in |-> x, out |-> clean_text_of(x)]
    /\ UNCHANGED <<module, SCRAPER_FN, appVars, dbVars, hist>>

\* _clean_value of module_2's and of module_3's clean.py.
call_clean_value(m, x) ==
    /\ probe = NoProbe /\ module = m
    /\ probe' = [fn |-> "_clean_value", in |-> x, out |-> clean_value_of(m, x)]
    /\ UNCHANGED <<module, SCRAPER_FN, appVars, dbVars, hist>>

\* A row dict without the "url" key: the INSERT's %(url)s placeholder has no
\* value and cur.execute raises.
RowWithoutUrl == [c \in Columns \ {"url"} |-> None]

\* The row lists _load_rows is called on: rows of a scraper and rows that
\* make the INSERT raise, in every order.
LoadRowsInputs == LineSeqs({Batches[2][1], Batches[2][3], RowWithoutUrl}, MaxLines)

\* module_5 app._load_rows(app, rows) on the table as it is, fresh or after a
\* load.
call_load_rows(rows) ==
    /\ probe.fn \in {"none", "main"} /\ module = "m5"
    /\ LET res == _load_rows(module, tableExists, indexKind, applicants, nextId, rows, TRUE)
       IN  /\ applicants' = res.rows
           /\ nextId' = res.nextId
           /\ probe' = [fn |-> "_load_rows", in |-> rows, ok |-> res.ok, before |-> applicants]
    /\ UNCHANGED <<module, SCRAPER_FN, appVars, tableExists, indexKind, hist>>

\* Before a call: module_2's scripts have no table; the loaders of modules 3
\* and 5 find the table of the tests' fixtures.
CallInit == InitIn({"m2", "m3", "m5"}) /\ ~SCRAPER_FN /\ (tableExists <=> module # "m2")

CallNext ==
    \/ \E text \in TermTexts : call_extract_term(text)
    \/ \E text \in TermTexts : call_clean_extract_term(text)
    \/ \E text \in NationTexts : call_extract_us_intl(text)
    \/ \E text \in NationTexts : call_clean_extract_us_intl(text)
    \/ \E lines \in JsonlFiles : call_load_jsonl(lines)
    \/ \E lines \in MainFiles : call_main(lines)
    \/ \E row \in TableRows : call_parse_row(row)
    \/ \E record \in ScrapedRecords : call_clean_record(record)
    \/ \E fail \in FailurePoints : call_fetch_metrics(fail)
    \/ \E text \in ScoreTexts : call_extract_gpa_gre(text)
    \/ \E text \in ScoreTexts : call_extract_metrics(text)
    \/ \E x \in ToFloatValues : call_to_float(x)
    \/ \E value \in DateValues : call_parse_date(value)
    \/ \E x \in NormalizerValues : call_clean_text(x)
    \/ \E m \in {"m2", "m3"}, x \in NormalizerValues : call_clean_value(m, x)
    \/ \E rows \in LoadRowsInputs : call_load_rows(rows)

CallSpec == CallInit /\ [][CallNext]_vars

(***************************************************************************)
(* Properties of the functions called on their own.                        *)
(***************************************************************************)
\* The record r without its LLM values.
WithoutLlm(r) == [k \in DOMAIN r \ LlmKeys |-> r[k]]

\* C11: the LLM-supplied values do not influence extraction: the row main
\* stores for a record has the term, status, us_or_international, gpa, gre,
\* gre_v and gre_aw that main computes for the record without its LLM
\* values.
C11_LlmValuesApart ==
    (probe.fn = "main" /\ Len(probe.in) = 1 /\ Len(applicants) = 1)
       => LET bare == RowOf(module, WithoutLlm(probe.in[1].obj))
          IN  \A c \in {"term", "status", "us_or_international", "gpa", "gre", "gre_v", "gre_aw"} :
                 applicants[1][c] = bare[c]

\* The lines that json.loads accepts, in file order.
WellFormed(lines) == SelectSeq(lines, LAMBDA l : l.kind = "json")

\* C13: a blank line and a line that is not well-formed JSON are skipped one
\* by one: load_jsonl yields exactly the values of the well-formed lines in
\* file order, and main goes on to the end of the file and stores a row for
\* every well-formed line.
C13_BadLinesSkipped ==
    /\ probe.fn = "load_jsonl"
          => probe.out = [i \in DOMAIN WellFormed(probe.in) |-> WellFormed(probe.in)[i].obj]
    /\ probe.fn = "main"
          => /\ probe.ok
             /\ \A i \in DOMAIN probe.in :
                   probe.in[i].kind = "json"
                      => \E j \in DOMAIN applicants :
                            /\ probe.in[i].obj # JsonNumber
                            /\ Sig(applicants[j]) = Sig(RowOf(module, probe.in[i].obj))

\* The text main extracts from for record r.
CombinedOf(m, r) ==
    Let(FieldsOf(r), LAMBDA f :
        Combined(m, <<f.program, f.comments, f.status, f.llm_prog, f.llm_uni>>))

\* main has stored the one record of its file.
StoredOne == probe.fn = "main" /\ probe.ok /\ Len(probe.in) = 1 /\ Len(applicants) = 1

\* C14: the stored term of a loaded record is the term extracted from its
\* combined text when there is one (the fallback never replaces it);
\* otherwise it is Fall 2026 exactly when date_added parses to a date in
\* 2026; otherwise it is absent.
C14_TermOrFallback ==
    StoredOne =>
       Let(extract_term(module, CombinedOf(module, probe.in[1].obj)), LAMBDA found :
           /\ found # None => applicants[1].term = found
           /\ found = None =>
                 /\ applicants[1].term \in {None, Some(FALL_2026)}
                 /\ applicants[1].term = Some(FALL_2026)
                       <=> /\ applicants[1].date_added # None
                           /\ Val(applicants[1].date_added)[1] = 2026)

\* A record without a term in its text and with a date in 2026 has been
\* stored with the fallback term.
C14_Witness ==
    /\ StoredOne
    /\ applicants[1].term = Some(FALL_2026)
    /\ extract_term(module, CombinedOf(module, probe.in[1].obj)) = None

\* The four decisions.
Decisions == {<<"A","c","c","e","p","t","e","d">>, <<"R","e","j","e","c","t","e","d">>, <<"W","a","i","t","l","i","s","t","e","d">>, <<"I","n","t","e","r","v","i","e","w">>}

\* C15: the status of every record clean_record produces and of every row
\* the loader stores is Accepted, Rejected, Waitlisted or Interview, or is
\* absent, whatever the raw status text was.
C15_StatusIsDecision ==
    /\ probe.fn = "clean_record"
          => (probe.out.status = None \/ Val(probe.out.status) \in Decisions)
    /\ \A i \in DOMAIN applicants :
          applicants[i].status = None \/ Val(applicants[i].status) \in Decisions

\* C17: the row identifier is never empty: every record the scraper emits,
\* every record clean_record produces and every stored row has a non-empty
\* source_url / url and a program that is not null.
C17_UrlNeverEmpty ==
    /\ probe.fn = "_parse_rows_from_html"
          => Truthy(probe.out.source_url) /\ probe.out.program_university_raw # None
    /\ probe.fn = "clean_record"
          => Truthy(probe.out.source_url) /\ Truthy(probe.out.url) /\ probe.out.program # None
    /\ \A i \in DOMAIN applicants :
          Truthy(applicants[i].url) /\ applicants[i].program # None

\* The word w (in lower case) occurs in text as a whole word, in any case.
HasWord(text, w) ==
    \E i \in 1..(Len(text) - Len(w) + 1) :
       /\ SubSeq(IgnoreCase(text), i, i + Len(w) - 1) = w
       /\ ~IsWordAt(text, i - 1)
       /\ ~IsWordAt(text, i + Len(w))

\* C16: the nationality extractors apply the priority International >
\* American > Other: the result is International if that word occurs (also
\* beside American), else American if American occurs, else Other if Other
\* occurs, else absent.
C16_NationalityPriority ==
    probe.fn \in {"extract_us_intl", "_extract_us_intl"}
       => probe.out = IF HasWord(probe.in, <<"i","n","t","e","r","n","a","t","i","o","n","a","l">>) THEN Some(<<"I","n","t","e","r","n","a","t","i","o","n","a","l">>)
                      ELSE IF HasWord(probe.in, <<"a","m","e","r","i","c","a","n">>) THEN Some(<<"A","m","e","r","i","c","a","n">>)
                      ELSE IF HasWord(probe.in, <<"o","t","h","e","r">>) THEN Some(<<"O","t","h","e","r">>)
                      ELSE None

\* The four seasons of a term.
Seasons == {<<"F","a","l","l">>, <<"S","p","r","i","n","g">>, <<"S","u","m","m","e","r">>, <<"W","i","n","t","e","r">>}

\* t is "{Season} {year}" with a season of Seasons and a year of four digits.
IsTerm(t) ==
    /\ Len(t) > 5
    /\ SubSeq(t, 1, Len(t) - 5) \in Seasons
    /\ t[Len(t) - 4] = " "
    /\ \A k \in (Len(t) - 3)..Len(t) : t[k] \in Digits

\* C20: whenever a term extractor returns a value, the value has the form
\* "{Season} {4-digit year}" with the season one of Fall, Spring, Summer and
\* Winter.
C20_TermFormat ==
    (probe.fn \in {"extract_term", "_extract_term"} /\ probe.out # None)
       => IsTerm(Val(probe.out))

\* The place in Statements of the query that computes the metric key; the
\* two titles are computed by no query.
StatementOf(key) == CHOOSE i \in DOMAIN Statements : Statements[i].q = key
Titles == {"q10a_title", "q10b_title"}

\* C19: module_5's fetch_metrics never raises: whether the connection or a
\* query fails, it returns the metrics dict with every key, and each key
\* whose query failed or was never reached holds its default value.
C19_FetchMetricsNeverRaises ==
    probe.fn = "fetch_metrics" =>
        /\ probe.out.exc = None
        /\ DOMAIN probe.out.metrics = DOMAIN MetricsDefaults
        /\ \A key \in DOMAIN MetricsDefaults :
              (key \in Titles \/ StatementOf(key) >= probe.fail)
                 => probe.out.metrics[key] = MetricsDefaults[key]
\* A call on a table with a Fall 2026 row whose second query fails: the
\* count is there and everything after it is the default.
C19_Witness ==
    /\ probe.fn = "fetch_metrics" /\ probe.fail = 2
    /\ probe.out.exc = None
    /\ probe.out.metrics.fall_2026 = 1
    /\ probe.out.metrics = [MetricsDefaults EXCEPT !.fall_2026 = 1]

\* x <= 4.00, for a float <<mantissa, scale>>.
AtMost4(x) == x[1] <= 4 * 10 ^ x[2]

\* C21: every gpa the GPA extractors return lies in 0.00 to 4.00: a number
\* above 4.00 in the text is never returned as gpa.
C21_GpaInRange ==
    probe.fn \in {"extract_gpa_gre", "_extract_metrics"} =>
        (probe.out[1] # None => AtMost4(Val(probe.out[1])))

\* The values of ScoreLabels, as floats.
ScoreValues == <<<<39, 1>>, <<165, 0>>, <<160, 0>>, <<45, 1>>>>

\* C27: the four sub-extractors are independent: on a text that holds a
\* labelled GPA, GRE Quant, Verbal and AWA value in any order,
\* extract_gpa_gre returns each labelled value in its own field, and on the
\* text without one of them only that field is absent and the others are
\* unchanged.
C27_SubExtractorsIndependent ==
    probe.fn = "extract_gpa_gre" =>
        \A o \in Arrangements :
            (Len(o) >= 3 /\ probe.in = JoinLabelled(o)) =>
                \A k \in DOMAIN ScoreLabels :
                    probe.out[k] = IF k \in Range(o) THEN Some(ScoreValues[k]) ELSE None

\* The dates of Records that parse, and the one that does not.
ParseableDates == {Some(<<"2","0","2","6","-","0","1","-","1","5">>), Some(<<"F","e","b"," ","1",","," ","2","0","2","5">>)}
UnparseableDate == Some(<<"s","o","o","n">>)
\* The inserted values of a row but its date_added.
OtherFields(row) == [c \in Columns \ {"date_added"} |-> row[c]]

\* C22: an unparseable date or number never aborts a record: parse_date and
\* to_float return absent instead of raising, for any input, and a record
\* whose date_added does not parse is inserted with date_added NULL and its
\* other fields as for a date that parses.
C22_UnparseableNeverAborts ==
    /\ probe.fn \in {"to_float", "parse_date"} => probe.out.exc = None
    /\ (StoredOne /\ Get(probe.in[1].obj, "date_added") = UnparseableDate) =>
          /\ applicants[1].date_added = None
          /\ \A d \in ParseableDates :
                OtherFields(applicants[1])
                   = OtherFields(RowOf(module, [probe.in[1].obj EXCEPT !.date_added = d]))

\* A result of a text normalizer: absent, or a non-empty str without NUL
\* and without whitespace at either end.
Normalized(v) ==
    v # None =>
        /\ Val(v) # <<>>
        /\ NUL \notin Range(Val(v))
        /\ Head(Val(v)) \notin Space /\ Val(v)[Len(Val(v))] \notin Space

\* C23: the text normalizers are total and normalizing: for any input,
\* string or not, they do not raise, the result is absent or a non-empty
\* string with no NUL and no whitespace at its ends, and normalizing the
\* result again returns it.
C23_NormalizerTotal ==
    /\ probe.fn = "clean_text" =>
          /\ probe.out.exc = None /\ Normalized(probe.out.value)
          /\ clean_text(probe.out.value) = probe.out.value
    /\ probe.fn = "_clean_value" =>
          /\ probe.out.exc = None /\ Normalized(probe.out.value)
          /\ _clean_value(probe.out.value) = probe.out.value

\* C28: the insert phase of a load is all-or-nothing: when the processing
\* of a row of _load_rows or of main raises, the table holds the rows it
\* held when the insert phase began (for main: the rows ensure_index left);
\* and when _load_rows succeeds, the key of every row it was given is
\* stored.
C28_InsertAllOrNothing ==
    [][/\ (probe.fn # "_load_rows" /\ probe'.fn = "_load_rows") =>
             /\ ~probe'.ok => applicants' = applicants
             /\ probe'.ok => Keys(applicants') = Keys(applicants) \cup Keys(probe'.in)
       /\ (probe.fn = "none" /\ probe'.fn = "main" /\ ~probe'.ok) =>
             applicants' = ensure_index(module, tableExists, indexKind, applicants, TRUE).rows]_vars
\* _load_rows was given a row with a new key and then a row that raises, and
\* the table holds the rows it held before.
C28_Witness ==
    /\ probe.fn = "_load_rows" /\ ~probe.ok
    /\ Len(probe.in) >= 2 /\ probe.in[Len(probe.in)] = RowWithoutUrl
    /\ DOMAIN probe.in[1] = Columns /\ Sig(probe.in[1]) \notin Keys(probe.before)
    /\ Len(probe.before) >= 1 /\ applicants = probe.before

\* How many times the result of the query q was fetched in the run.
Fetched(run, q) == Cardinality({i \in DOMAIN run.fetches : run.fetches[i] = q})

\* C30: when the database is reachable and every query succeeds,
\* fetch_metrics executes every query, fetches the result of each executed
\* query exactly once, and returns for every metric the result of its own
\* query on the table.
C30_EveryMetricFromItsQuery ==
    (probe.fn = "fetch_metrics" /\ probe.fail = NoFailure) =>
        /\ \A i \in DOMAIN probe.out.executed : Fetched(probe.out, probe.out.executed[i]) = 1
        /\ probe.out.executed = [i \in DOMAIN Statements |-> Statements[i].q]
        /\ \A key \in DOMAIN MetricsDefaults \ Titles :
              probe.out.metrics[key] = ResultOf(key, applicants)

====
